---------------------------- MODULE Spec2Model ----------------------------
(***************************************************************************)
(* A model of the Godot scene parser of src/scene_tools/parser.ts and of   *)
(* the tokenizer of src/utils/tokenizer.ts.                                *)
(*                                                                         *)
(* Texts are sequences of one-character strings, positions are 0-based as  *)
(* in the source (CharAt(s, i) is s.charAt(i)).  JavaScript values are     *)
(* tagged records: [k |-> "str", s |-> chars], [k |-> "num", m, e] for the *)
(* number m * 10^e, [k |-> "nan"], [k |-> "bool", b], [k |-> "undef"],     *)
(* [k |-> "list", items], [k |-> "dict", keys, vals], [k |-> "null"].      *)
(***************************************************************************)
EXTENDS Integers, Sequences, FiniteSets, TLC

VARIABLES
    versions,   \* the texts the document takes in this run (the input)
    doc,        \* the document: [text, mtime] (document.getText(), fs.statSync)
    scenes,     \* SceneParser.scenes: path -> Scene
    lexer,      \* Parser.#instance.lexer, the shared Tokenizr
    pc,         \* "idle", or "loop" inside parseScene's top-level loop
    outcome,    \* what the last parse_scene call did
    probe       \* the result of the pure function a specification applies

vars == <<versions, doc, scenes, lexer, pc, outcome, probe>>

\* const r = v, then F(r): v is evaluated once
Bind(v, F(_)) == CHOOSE y \in {F(r) : r \in {v}} : TRUE

---------------------------------------------------------------------------
(* Characters *)

Digit == {"0", "1", "2", "3", "4", "5", "6", "7", "8", "9"}

HexDigit == Digit \cup {"a", "b", "c", "d", "e", "f", "A", "B", "C", "D", "E", "F"}

Lower == {"a", "b", "c", "d", "e", "f", "g", "h", "i", "j", "k", "l", "m",
          "n", "o", "p", "q", "r", "s", "t", "u", "v", "w", "x", "y", "z"}

Upper == {"A", "B", "C", "D", "E", "F", "G", "H", "I", "J", "K", "L", "M",
          "N", "O", "P", "Q", "R", "S", "T", "U", "V", "W", "X", "Y", "Z"}

IdentStart == Lower \cup Upper \cup {"_"}

IdentPart == IdentStart \cup Digit \cup {"/"}

\* [ \t\r\n]
WhiteSpace == {" ", "\t", "\r", "\n"}

\* what "." of a regular expression without the s flag does not match
LineTerminator == {"\n", "\r"}

CharAt(s, i) == s[i + 1]

\* s.substring(from, until)
Slice(s, from, until) == SubSeq(s, from + 1, until)

RECURSIVE ScanWhile(_, _, _)
\* the first index j >= i with j = Len(s) or s[j] not in class
ScanWhile(s, i, class) ==
    IF i < Len(s) /\ CharAt(s, i) \in class THEN ScanWhile(s, i + 1, class) ELSE i

RECURSIVE ScanUntil(_, _, _)
\* the first index j >= i with j = Len(s) or s[j] in stop
ScanUntil(s, i, stop) ==
    IF i < Len(s) /\ CharAt(s, i) \notin stop THEN ScanUntil(s, i + 1, stop) ELSE i

---------------------------------------------------------------------------
(* Values *)

Undefined == [k |-> "undef"]

Null == [k |-> "null"]

NaN == [k |-> "nan"]

Str(s) == [k |-> "str", s |-> s]

Bool(b) == [k |-> "bool", b |-> b]

List(items) == [k |-> "list", items |-> items]

RECURSIVE NormNum(_, _)
\* the number m * 10^e, in the one form that has no trailing zero in m
NormNum(m, e) ==
    IF m = 0 THEN [k |-> "num", m |-> 0, e |-> 0]
    ELSE IF m % 10 = 0 THEN NormNum(m \div 10, e + 1)
    ELSE [k |-> "num", m |-> m, e |-> e]

DigitVal(c) ==
    CASE c = "0" -> 0 [] c = "1" -> 1 [] c = "2" -> 2 [] c = "3" -> 3 [] c = "4" -> 4
      [] c = "5" -> 5 [] c = "6" -> 6 [] c = "7" -> 7 [] c = "8" -> 8 [] c = "9" -> 9

RECURSIVE DigitsVal(_, _, _, _)
\* the value of the decimal digits s[from .. until-1], after acc
DigitsVal(s, from, until, acc) ==
    IF from >= until THEN acc
    ELSE DigitsVal(s, from + 1, until, 10 * acc + DigitVal(CharAt(s, from)))

\* the end of the match of \d+\.?\d*|\.\d+ at a, or -1
NumberMantissa(s, a) ==
    Bind(ScanWhile(s, a, Digit), LAMBDA i1 :
        IF i1 > a
        THEN IF i1 < Len(s) /\ CharAt(s, i1) = "." THEN ScanWhile(s, i1 + 1, Digit) ELSE i1
        ELSE IF a < Len(s) /\ CharAt(s, a) = "."
             THEN Bind(ScanWhile(s, a + 1, Digit), LAMBDA j : IF j > a + 1 THEN j ELSE -1)
             ELSE -1)

\* the end of the match of (?:[eE][+-]?\d+)? at mant
NumberExponent(s, mant) ==
    IF mant < Len(s) /\ CharAt(s, mant) \in {"e", "E"}
    THEN Bind(IF mant + 1 < Len(s) /\ CharAt(s, mant + 1) \in {"+", "-"}
              THEN mant + 2 ELSE mant + 1, LAMBDA x1 :
         Bind(ScanWhile(s, x1, Digit), LAMBDA x2 : IF x2 > x1 THEN x2 ELSE mant))
    ELSE mant

\* The end of the longest prefix of s at p that
\* [+-]?(?:\d+\.?\d*|\.\d+)(?:[eE][+-]?\d+)? matches, or -1.
MatchNumber(s, p) ==
    Bind(NumberMantissa(s, IF p < Len(s) /\ CharAt(s, p) \in {"+", "-"} THEN p + 1 ELSE p),
         LAMBDA mant : IF mant < 0 THEN -1 ELSE NumberExponent(s, mant))

\* the number with the digits s[a .. i1-1] before the point, s[f0 .. f1-1]
\* after it, and the exponent that follows s[f1] when f1 is not the end
Decimal(s, a, i1, f0, f1) ==
    Bind(IF f1 < Len(s)
         THEN Bind(DigitsVal(s, IF CharAt(s, f1 + 1) \in {"+", "-"} THEN f1 + 2 ELSE f1 + 1,
                             Len(s), 0), LAMBDA xval :
                  IF CharAt(s, f1 + 1) = "-" THEN 0 - xval ELSE xval)
         ELSE 0, LAMBDA exp :
    Bind(DigitsVal(s, f0, f1, DigitsVal(s, a, i1, 0)), LAMBDA m :
        NormNum(IF CharAt(s, 0) = "-" THEN 0 - m ELSE m, exp - (f1 - f0))))

\* parseFloat(s) for a text s that MatchNumber matches whole
DecimalValue(s) ==
    Bind(IF CharAt(s, 0) \in {"+", "-"} THEN 1 ELSE 0, LAMBDA a :
    Bind(ScanWhile(s, a, Digit), LAMBDA i1 :
    Bind(IF i1 < Len(s) /\ CharAt(s, i1) = "." THEN i1 + 1 ELSE i1, LAMBDA f0 :
        Decimal(s, a, i1, f0, ScanWhile(s, f0, Digit)))))

RECURSIVE TrimEnd(_, _, _)
\* the end of s without the white space before index j, from index a on
TrimEnd(s, a, j) ==
    IF j > a /\ CharAt(s, j - 1) \in WhiteSpace THEN TrimEnd(s, a, j - 1) ELSE j

\* value.trim()
Trim(s) ==
    Bind(ScanWhile(s, 0, WhiteSpace), LAMBDA a : Slice(s, a, TrimEnd(s, a, Len(s))))

\* Number(s) of a trimmed text: the empty text is 0, a decimal literal its
\* value, any other text NaN (hexadecimal, binary, octal literals and
\* Infinity are not texts of this model).
ToNumber(s) ==
    IF Len(s) = 0 THEN NormNum(0, 0)
    ELSE IF MatchNumber(s, 0) = Len(s) THEN DecimalValue(s)
    ELSE NaN

RECURSIVE SplitAt(_, _, _)
\* s.split(c), from index i on
SplitAt(s, i, c) ==
    Bind(ScanUntil(s, i, {c}), LAMBDA j :
        IF j >= Len(s) THEN <<Slice(s, i, j)>>
        ELSE <<Slice(s, i, j)>> \o SplitAt(s, j + 1, c))

---------------------------------------------------------------------------
(* The lexer rules of Parser's constructor, in declaration order *)

\* /[ \t\r\n]+/
MatchWhitespace(s, p) ==
    Bind(ScanWhile(s, p, WhiteSpace), LAMBDA j : IF j > p THEN j ELSE -1)

\* /;.*/
MatchComment(s, p) ==
    IF CharAt(s, p) = ";" THEN ScanUntil(s, p + 1, LineTerminator) ELSE -1

\* /\(([^)]+)\)/
MatchParenList(s, p) ==
    IF CharAt(s, p) # "(" THEN -1
    ELSE Bind(ScanUntil(s, p + 1, {")"}), LAMBDA j :
             IF j < Len(s) /\ j > p + 1 THEN j + 1 ELSE -1)

\* /[{}[\]()]/
MatchBracket(s, p) ==
    IF CharAt(s, p) \in {"{", "}", "[", "]", "(", ")"} THEN p + 1 ELSE -1

\* /[:,=.]/
MatchPunct(s, p) ==
    IF CharAt(s, p) \in {":", ",", "=", "."} THEN p + 1 ELSE -1

\* /#[0-9a-fA-F]+/
MatchColor(s, p) ==
    IF CharAt(s, p) # "#" THEN -1
    ELSE Bind(ScanWhile(s, p + 1, HexDigit), LAMBDA j : IF j > p + 1 THEN j ELSE -1)

RECURSIVE QuotedEnd(_, _)
\* (?:\\.|[^"\\])*" from index i: the index after the closing quote, or -1
QuotedEnd(s, i) ==
    IF i >= Len(s) THEN -1
    ELSE IF CharAt(s, i) = "\"" THEN i + 1
    ELSE IF CharAt(s, i) = "\\"
         THEN IF i + 1 < Len(s) /\ CharAt(s, i + 1) \notin LineTerminator
              THEN QuotedEnd(s, i + 2)
              ELSE -1
    ELSE QuotedEnd(s, i + 1)

\* /"((?:\\.|[^"\\])*)"|&"((?:\\.|[^"\\])*)"/
MatchString(s, p) ==
    IF CharAt(s, p) = "\"" THEN QuotedEnd(s, p + 1)
    ELSE IF CharAt(s, p) = "&" /\ p + 1 < Len(s) /\ CharAt(s, p + 1) = "\""
         THEN QuotedEnd(s, p + 2)
    ELSE -1

\* /[a-zA-Z_][a-zA-Z0-9_\/]*/
MatchIdentifier(s, p) ==
    IF CharAt(s, p) \in IdentStart THEN ScanWhile(s, p + 1, IdentPart) ELSE -1

\* /./
MatchAny(s, p) ==
    IF CharAt(s, p) \notin LineTerminator THEN p + 1 ELSE -1

\* the number of rules of the lexer
RuleCount == 10

\* _matchPattern for rule i (from 0): the end of the match that starts at
\* p, or -1 when the pattern does not match there
MatchPattern(i, s, p) ==
    CASE i = 0 -> MatchWhitespace(s, p)
      [] i = 1 -> MatchComment(s, p)
      [] i = 2 -> MatchParenList(s, p)
      [] i = 3 -> MatchBracket(s, p)
      [] i = 4 -> MatchPunct(s, p)
      [] i = 5 -> MatchColor(s, p)
      [] i = 6 -> MatchString(s, p)
      [] i = 7 -> MatchNumber(s, p)
      [] i = 8 -> MatchIdentifier(s, p)
      [] i = 9 -> MatchAny(s, p)

\* ParenItem, but a piece that is no number is kept as its text
ParenItemText(piece) ==
    Bind(Trim(piece), LAMBDA v :
        IF Len(v) > 0 /\ v[1] = "\"" /\ v[Len(v)] = "\""
        THEN Str(IF Len(v) >= 2 THEN SubSeq(v, 2, Len(v) - 1) ELSE <<>>)
        ELSE IF ToNumber(v) = NaN THEN Str(v) ELSE ToNumber(v))

\* one piece of the parenthesized list, as the rule's map callback turns it
\* into a value
ParenItem(piece) ==
    Bind(Trim(piece), LAMBDA v :
        IF Len(v) > 0 /\ v[1] = "\"" /\ v[Len(v)] = "\""
        THEN Str(IF Len(v) >= 2 THEN SubSeq(v, 2, Len(v) - 1) ELSE <<>>)
        ELSE ToNumber(v))

\* the value of the ARRAY token for the match m = "(" inner ")"
ParenListValue(m) ==
    Bind(SplitAt(Slice(m, 1, Len(m) - 1), 0, ","), LAMBDA pieces :
        List([n \in 1..Len(pieces) |-> ParenItem(pieces[n])]))

BracketType(c) ==
    CASE c = "{" -> "CURLY_BRACKET_OPEN" [] c = "}" -> "CURLY_BRACKET_CLOSE"
      [] c = "[" -> "BRACKET_OPEN" [] c = "]" -> "BRACKET_CLOSE"
      [] c = "(" -> "PARENTHESIS_OPEN" [] c = ")" -> "PARENTHESIS_CLOSE"

PunctType(c) ==
    CASE c = ":" -> "COLON" [] c = "," -> "COMMA" [] c = "." -> "PERIOD" [] c = "=" -> "EQUAL"

\* U+0008, which a TLA+ string cannot hold, is the character "BS"
Unescape(c) ==
    CASE c = "b" -> "BS" [] c = "t" -> "\t" [] c = "n" -> "\n" [] c = "f" -> "\f"
      [] c = "r" -> "\r" [] OTHER -> c

RECURSIVE UnescapeAll(_, _)
\* body.replace(/\\(.)/g, ...) from index i on
UnescapeAll(s, i) ==
    IF i >= Len(s) THEN <<>>
    ELSE IF CharAt(s, i) = "\\" /\ i + 1 < Len(s) /\ CharAt(s, i + 1) \notin LineTerminator
         THEN <<Unescape(CharAt(s, i + 1))>> \o UnescapeAll(s, i + 2)
    ELSE <<CharAt(s, i)>> \o UnescapeAll(s, i + 1)

\* the value of a STRING or STRING_NAME token for the match m
StringValue(m) ==
    Str(UnescapeAll(Slice(m, IF m[1] = "&" THEN 2 ELSE 1, Len(m) - 1), 0))

IdentifierValue(m) ==
    IF m = <<"t", "r", "u", "e">> THEN Bool(TRUE)
    ELSE IF m = <<"f", "a", "l", "s", "e">> THEN Bool(FALSE)
    ELSE Str(m)

\* The action of rule i on the match m: ctx.ignore(), or ctx.accept(type,
\* value) (accept with no value gives the token the match as its value).
RuleAction(i, m) ==
    CASE i \in {0, 1} -> [ignore |-> TRUE, type |-> "", value |-> Undefined]
      [] i = 2 -> [ignore |-> FALSE, type |-> "ARRAY", value |-> ParenListValue(m)]
      [] i = 3 -> [ignore |-> FALSE, type |-> BracketType(m[1]), value |-> Str(m)]
      [] i = 4 -> [ignore |-> FALSE, type |-> PunctType(m[1]), value |-> Str(m)]
      [] i = 5 -> [ignore |-> FALSE, type |-> "COLOR", value |-> Str(m)]
      [] i = 6 -> [ignore |-> FALSE,
                   type |-> IF m[1] = "&" THEN "STRING_NAME" ELSE "STRING",
                   value |-> StringValue(m)]
      [] i = 7 -> [ignore |-> FALSE, type |-> "NUMBER", value |-> DecimalValue(m)]
      [] i = 8 -> [ignore |-> FALSE, type |-> "IDENTIFIER", value |-> IdentifierValue(m)]
      [] i = 9 -> [ignore |-> FALSE, type |-> "ERROR",
                   value |-> Str(<<"Unexpected character: ">> \o m)]

---------------------------------------------------------------------------
(* Tokenizr: the lexer's state and its operations.  _tokenize, finish and  *)
(* _processRule are the overrides of src/utils/tokenizer.ts; input, token, *)
(* peek, consume and the transactions are the tokenizr package's.          *)

NoError == [kind |-> "none", msg |-> "", pos |-> -1, line |-> -1, column |-> -1]

\* the package's ParsingError, which carries a position
ParsingError(msg, pos, line, column) ==
    [kind |-> "ParsingError", msg |-> msg, pos |-> pos, line |-> line, column |-> column]

\* an Error or TypeError of the runtime, which carries none
RuntimeError(kind, msg) ==
    [kind |-> kind, msg |-> msg, pos |-> -1, line |-> -1, column |-> -1]

IsError(e) == e.kind # "none"

Token(type, value, text, pos, line, column) ==
    [type |-> type, value |-> value, text |-> text, pos |-> pos, line |-> line,
     column |-> column]

\* reset(): the state of a new Tokenizr as well
NewLexer ==
    [input |-> <<>>, len |-> 0, pos |-> 0, line |-> 1, column |-> 1,
     pending |-> <<>>, transaction |-> <<>>, eof |-> FALSE]

\* input(text): reset(), then the new text
LexerInput(lx, text) == [NewLexer EXCEPT !.input = text, !.len = Len(text)]

\* the line and column after the character c
Advance(lx, c) ==
    CASE c = "\r" -> [lx EXCEPT !.column = 1]
      [] c = "\n" -> [lx EXCEPT !.line = lx.line + 1, !.column = 1]
      [] c = "\t" -> [lx EXCEPT !.column = lx.column + 8 - (lx.column % 8)]
      [] OTHER -> [lx EXCEPT !.column = lx.column + 1]

RECURSIVE Progress(_, _, _)
\* _progress(from, until): the line and column after input[from .. until-1],
\* character after character (the first half of the span, then the second)
Progress(lx, from, until) ==
    IF from >= until THEN lx
    ELSE IF until = from + 1 THEN Advance(lx, CharAt(lx.input, from))
    ELSE Bind(Progress(lx, from, (from + until) \div 2), LAMBDA half :
             Progress(half, (from + until) \div 2, until))

\* finish(): the EOF token, once
Finish(lx) ==
    IF lx.eof THEN lx
    ELSE [lx EXCEPT !.eof = TRUE,
                    !.pending = Append(lx.pending,
                                       Token("EOF", Str(<<>>), <<>>, lx.pos, lx.line, lx.column))]

\* the lexer after ctx.accept(type, value) of the match m that ends at e,
\* moved being the lexer after _progress: the token is pending, and the
\* EOF token too at the end of the input
Accept(lx, moved, act, m, e) ==
    Bind([moved EXCEPT !.pending =
             Append(lx.pending, Token(act.type, act.value, m, lx.pos, lx.line, lx.column))],
         LAMBDA acc : IF e >= lx.len THEN Finish(acc) ELSE acc)

\* _processRule(rule i, found = input[pos .. e-1]): the lexer after the
\* rule's action, and what _processRule returns
ProcessRule(lx, i, e) ==
    Bind(Slice(lx.input, lx.pos, e), LAMBDA m :
    Bind(RuleAction(i, m), LAMBDA act :
    Bind([Progress(lx, lx.pos, e) EXCEPT !.pos = e], LAMBDA moved :
        IF act.ignore
        THEN [lx |-> moved, ret |-> e >= lx.len]
        ELSE [lx |-> Accept(lx, moved, act, m, e), ret |-> TRUE])))

RECURSIVE TokenizeRules(_, _)
\* the rule loop of _tokenize, from rule i on
TokenizeRules(lx, i) ==
    IF i >= RuleCount
    THEN [lx |-> lx,
          err |-> ParsingError("token not recognized", lx.pos, lx.line, lx.column)]
    ELSE Bind(MatchPattern(i, lx.input, lx.pos), LAMBDA e :
             IF e < 0 THEN TokenizeRules(lx, i + 1)
             ELSE Bind(ProcessRule(lx, i, e), LAMBDA r :
                      IF r.ret THEN [lx |-> r.lx, err |-> NoError]
                      ELSE TokenizeRules(r.lx, i + 1)))

\* _tokenize()
Tokenize(lx) ==
    IF lx.pos >= lx.len THEN [lx |-> Finish(lx), err |-> NoError]
    ELSE TokenizeRules(lx, 0)

\* _tokenize() when no token is pending
Fill(lx) ==
    IF Len(lx.pending) = 0 THEN Tokenize(lx) ELSE [lx |-> lx, err |-> NoError]

\* pending.shift(): the token joins the transaction that is open
Shift(lx) ==
    Bind([lx EXCEPT !.pending = Tail(lx.pending)], LAMBDA rest :
        [lx |-> IF Len(rest.transaction) > 0
                THEN [rest EXCEPT !.transaction[1] = Append(rest.transaction[1], Head(lx.pending))]
                ELSE rest,
         err |-> NoError, val |-> Head(lx.pending)])

\* token(): the next token, or null when _tokenize left none pending
LexToken(lx) ==
    Bind(Fill(lx), LAMBDA t :
        IF IsError(t.err) THEN [lx |-> t.lx, err |-> t.err, val |-> Null]
        ELSE IF Len(t.lx.pending) = 0 THEN [lx |-> t.lx, err |-> NoError, val |-> Null]
        ELSE Shift(t.lx))

\* peek(): the next token, left pending; with none pending after _tokenize
\* it throws
LexPeek(lx) ==
    Bind(Fill(lx), LAMBDA t :
        IF IsError(t.err) THEN [lx |-> t.lx, err |-> t.err, val |-> Null]
        ELSE IF Len(t.lx.pending) = 0
             THEN [lx |-> t.lx,
                   err |-> RuntimeError("Error", "not enough tokens available for peek operation"),
                   val |-> Null]
        ELSE [lx |-> t.lx, err |-> NoError, val |-> Head(t.lx.pending)])

\* consume(type): token(), which must be of the type
Consume(lx, type) ==
    Bind(LexToken(lx), LAMBDA t :
        IF IsError(t.err) THEN t
        ELSE IF t.val = Null
             THEN [t EXCEPT !.err = RuntimeError("TypeError", "token is null")]
        ELSE IF t.val.type # type
             THEN [t EXCEPT !.err = ParsingError("unexpected token", t.val.pos, t.val.line,
                                                 t.val.column)]
        ELSE t)

\* begin()
Begin(lx) == [lx EXCEPT !.transaction = <<<<>>>> \o lx.transaction]

\* depth()
Depth(lx) == Len(lx.transaction[1])

\* commit(): the committed tokens join the enclosing transaction
Commit(lx) ==
    Bind(Tail(lx.transaction), LAMBDA rest :
        [lx EXCEPT !.transaction =
            IF Len(rest) > 0 THEN <<rest[1] \o lx.transaction[1]>> \o Tail(rest) ELSE rest])

\* rollback(): the transaction's tokens are pending again
Rollback(lx) ==
    [lx EXCEPT !.pending = lx.transaction[1] \o lx.pending,
               !.transaction = Tail(lx.transaction)]

---------------------------------------------------------------------------
(* Conversions of values *)

RECURSIVE NatDigits(_)
\* the decimal digits of a natural number
NatDigits(n) ==
    Bind(<<"0", "1", "2", "3", "4", "5", "6", "7", "8", "9">>[(n % 10) + 1], LAMBDA d :
        IF n < 10 THEN <<d>> ELSE Append(NatDigits(n \div 10), d))

Zeros(n) == [i \in 1..n |-> "0"]

\* String(x) of a number (numbers of at least 1e21 or below 1e-6, which
\* JavaScript writes with an exponent, are not values of this model)
NumToString(v) ==
    Bind(NatDigits(IF v.m < 0 THEN 0 - v.m ELSE v.m), LAMBDA d :
    Bind(IF v.e >= 0 THEN d \o Zeros(v.e)
         ELSE IF Len(d) > 0 - v.e
              THEN SubSeq(d, 1, Len(d) + v.e) \o <<".">> \o SubSeq(d, Len(d) + v.e + 1, Len(d))
         ELSE <<"0", ".">> \o Zeros((0 - v.e) - Len(d)) \o d, LAMBDA body :
        IF v.m < 0 THEN <<"-">> \o body ELSE body))

RECURSIVE JoinTexts(_, _)
\* texts.join(sep)
JoinTexts(texts, sep) ==
    IF Len(texts) = 0 THEN <<>>
    ELSE IF Len(texts) = 1 THEN texts[1]
    ELSE texts[1] \o sep \o JoinTexts(Tail(texts), sep)

RECURSIVE StringOf(_)
\* String(x), as a template literal or a property key converts x
StringOf(v) ==
    CASE v.k = "str" -> v.s
      [] v.k = "bool" -> IF v.b THEN <<"t", "r", "u", "e">> ELSE <<"f", "a", "l", "s", "e">>
      [] v.k = "undef" -> <<"u", "n", "d", "e", "f", "i", "n", "e", "d">>
      [] v.k = "null" -> <<"n", "u", "l", "l">>
      [] v.k = "nan" -> <<"N", "a", "N">>
      [] v.k = "num" -> NumToString(v)
      [] v.k = "list" -> JoinTexts([i \in 1..Len(v.items) |-> StringOf(v.items[i])], <<",">>)
      [] OTHER -> <<"[", "o", "b", "j", "e", "c", "t", " ", "O", "b", "j", "e", "c", "t", "]">>

\* if (x)
Truthy(v) ==
    CASE v.k = "str" -> Len(v.s) > 0
      [] v.k = "bool" -> v.b
      [] v.k = "num" -> v.m # 0
      [] v.k \in {"undef", "null", "nan"} -> FALSE
      [] OTHER -> TRUE

\* x?.length > 0
HasLength(v) ==
    CASE v.k = "str" -> Len(v.s) > 0
      [] v.k = "list" -> Len(v.items) > 0
      [] OTHER -> FALSE

\* x[0] of a string or an array
First(v) ==
    CASE v.k = "str" -> IF Len(v.s) > 0 THEN Str(<<v.s[1]>>) ELSE Undefined
      [] v.k = "list" -> IF Len(v.items) > 0 THEN v.items[1] ELSE Undefined
      [] OTHER -> Undefined

---------------------------------------------------------------------------
(* Parser: the value productions *)

\* a NodeProperty; an element of an array or a dictionary is one too, and
\* so is a primitive's token (its pos and column are not kept)
NodeProperty(type, name, value, text, line) ==
    [k |-> "prop", type |-> type, name |-> name, value |-> value, text |-> text,
     line |-> line]

\* a TokenType, or the 'ARRAY' and 'DICTIONARY' of the productions, as the
\* string it is
TypeName(t) ==
    CASE t = "NUMBER" -> Str(<<"N", "U", "M", "B", "E", "R">>)
      [] t = "STRING" -> Str(<<"S", "T", "R", "I", "N", "G">>)
      [] t = "STRING_NAME" -> Str(<<"S", "T", "R", "I", "N", "G", "_", "N", "A", "M", "E">>)
      [] t = "COLOR" -> Str(<<"C", "O", "L", "O", "R">>)
      [] t = "IDENTIFIER" -> Str(<<"I", "D", "E", "N", "T", "I", "F", "I", "E", "R">>)
      [] t = "ARRAY" -> Str(<<"A", "R", "R", "A", "Y">>)
      [] t = "DICTIONARY" -> Str(<<"D", "I", "C", "T", "I", "O", "N", "A", "R", "Y">>)

\* what a production returns or throws, with the lexer it leaves
Result(lx, err, val) == [lx |-> lx, err |-> err, val |-> val]

\* a failed alternative: its exception and the depth() at the catch
Failure(err, depth) == [ex |-> err, depth |-> depth]

RECURSIVE FirstMinDepth(_, _)
\* depths.sort((a, b) => a.depth - b.depth)[0]: the sort is stable
FirstMinDepth(fails, best) ==
    IF Len(fails) = 0 THEN best
    ELSE FirstMinDepth(Tail(fails), IF fails[1].depth < best.depth THEN fails[1] ELSE best)

\* the exception alternatives() throws when every alternative failed
AlternativesError(fails) == FirstMinDepth(Tail(fails), fails[1]).ex

PrimitiveTypes == <<"NUMBER", "STRING", "STRING_NAME", "COLOR", "IDENTIFIER">>

RECURSIVE PrimitiveFrom(_, _, _)
\* alternatives() of parsePrimitive, from the i-th consume on
PrimitiveFrom(lx, i, fails) ==
    IF i > Len(PrimitiveTypes) THEN Result(lx, AlternativesError(fails), Null)
    ELSE Bind(Consume(Begin(lx), PrimitiveTypes[i]), LAMBDA r :
             IF IsError(r.err)
             THEN PrimitiveFrom(Rollback(r.lx), i + 1,
                                Append(fails, Failure(r.err, Depth(r.lx))))
             ELSE Result(Commit(r.lx), NoError, r.val))

\* parsePrimitive(): the token
ParsePrimitive(lx) == PrimitiveFrom(lx, 1, <<>>)

\* parseConstruct()
ParseConstruct(lx) ==
    Bind(Consume(lx, "IDENTIFIER"), LAMBDA t :
        IF IsError(t.err) THEN t
        ELSE Bind(Consume(t.lx, "ARRAY"), LAMBDA a :
                 IF IsError(a.err) THEN a
                 ELSE Result(a.lx, NoError,
                             NodeProperty(t.val.value, t.val.value, a.val.value,
                                          t.val.text \o a.val.text, t.val.line))))

\* a primitive's token as the value praseValue returns
TokenProperty(tok) ==
    NodeProperty(TypeName(tok.type), Undefined, tok.value, tok.text, tok.line)

\* dictionary.set(key, value): a Map keeps the place of a key it has
MapSet(entries, key, value) ==
    IF \E i \in 1..Len(entries) : entries[i].key = key
    THEN [i \in 1..Len(entries) |->
             IF entries[i].key = key THEN [key |-> key, val |-> value] ELSE entries[i]]
    ELSE Append(entries, [key |-> key, val |-> value])

Dict(entries) == [k |-> "dict", entries |-> entries]

RECURSIVE PraseValue(_)
RECURSIVE ValueFrom(_, _, _)
RECURSIVE ParseArray(_)
RECURSIVE ArrayLoop(_, _)
RECURSIVE ParseDictionary(_)
RECURSIVE DictionaryLoop(_, _)
RECURSIVE DictionaryEntry(_, _, _)

\* the for loop of parseArray
ArrayLoop(lx, array) ==
    Bind(LexPeek(lx), LAMBDA t :
        IF IsError(t.err) THEN Result(t.lx, t.err, array)
        ELSE IF t.val.type = "BRACKET_CLOSE" THEN Result(t.lx, NoError, array)
        ELSE IF t.val.type = "COMMA" THEN ArrayLoop(LexToken(t.lx).lx, array)
        ELSE Bind(PraseValue(t.lx), LAMBDA v :
                 IF IsError(v.err) THEN Result(v.lx, v.err, array)
                 ELSE ArrayLoop(v.lx, Append(array, v.val))))

\* array.map(v => v.text).join(', ') in brackets
ArrayText(array) ==
    <<"[">> \o JoinTexts([i \in 1..Len(array) |-> array[i].text], <<",", " ">>) \o <<"]">>

\* parseArray()
ParseArray(lx) ==
    Bind(Consume(lx, "BRACKET_OPEN"), LAMBDA open :
        IF IsError(open.err) THEN open
        ELSE Bind(ArrayLoop(open.lx, <<>>), LAMBDA body :
                 IF IsError(body.err) THEN Result(body.lx, body.err, Null)
                 ELSE Bind(Consume(body.lx, "BRACKET_CLOSE"), LAMBDA close :
                          IF IsError(close.err) THEN close
                          ELSE Result(close.lx, NoError,
                                      NodeProperty(TypeName("ARRAY"), Undefined, List(body.val),
                                                   ArrayText(body.val), open.val.line)))))

\* the rest of a pass of parseDictionary's loop after the key
DictionaryEntry(lx, entries, key) ==
    Bind(Consume(lx, "COLON"), LAMBDA colon :
        IF IsError(colon.err) THEN Result(colon.lx, colon.err, entries)
        ELSE Bind(PraseValue(colon.lx), LAMBDA v :
                 IF IsError(v.err) THEN Result(v.lx, v.err, entries)
                 ELSE DictionaryLoop(v.lx, MapSet(entries, key.value, v.val))))

\* the for loop of parseDictionary
DictionaryLoop(lx, entries) ==
    Bind(LexPeek(lx), LAMBDA t :
        IF IsError(t.err) THEN Result(t.lx, t.err, entries)
        ELSE IF t.val.type = "CURLY_BRACKET_CLOSE" THEN Result(t.lx, NoError, entries)
        ELSE IF t.val.type = "COMMA" THEN DictionaryLoop(LexToken(t.lx).lx, entries)
        ELSE Bind(ParsePrimitive(t.lx), LAMBDA key :
                 IF IsError(key.err) THEN Result(key.lx, key.err, entries)
                 ELSE DictionaryEntry(key.lx, entries, key.val)))

\* Array.from(dictionary).map(value => `"${value[0]}"`).join(',') in braces
DictionaryText(entries) ==
    <<"{">> \o JoinTexts([i \in 1..Len(entries) |->
                            <<"\"">> \o StringOf(entries[i].key) \o <<"\"">>], <<",">>)
    \o <<"}">>

\* parseDictionary()
ParseDictionary(lx) ==
    Bind(Consume(lx, "CURLY_BRACKET_OPEN"), LAMBDA open :
        IF IsError(open.err) THEN open
        ELSE Bind(DictionaryLoop(open.lx, <<>>), LAMBDA body :
                 IF IsError(body.err) THEN Result(body.lx, body.err, Null)
                 ELSE Bind(Consume(body.lx, "CURLY_BRACKET_CLOSE"), LAMBDA close :
                          IF IsError(close.err) THEN close
                          ELSE Result(close.lx, NoError,
                                      NodeProperty(TypeName("DICTIONARY"), Undefined,
                                                   Dict(body.val), DictionaryText(body.val),
                                                   open.val.line)))))

\* the i-th alternative of praseValue
ValueAlternative(lx, i) ==
    CASE i = 1 -> ParseConstruct(lx)
      [] i = 2 -> Bind(ParsePrimitive(lx), LAMBDA r :
                      IF IsError(r.err) THEN r ELSE [r EXCEPT !.val = TokenProperty(r.val)])
      [] i = 3 -> ParseArray(lx)
      [] i = 4 -> ParseDictionary(lx)

\* the number of alternatives of praseValue
ValueAlternatives == 4

\* ValueFrom, but the tokens of a failed alternative are not given back
ValueFromNoRollback(lx, i, fails) ==
    IF i > ValueAlternatives THEN Result(lx, AlternativesError(fails), Null)
    ELSE Bind(ValueAlternative(Begin(lx), i), LAMBDA r :
             IF IsError(r.err)
             THEN ValueFrom([r.lx EXCEPT !.transaction = Tail(@)], i + 1,
                            Append(fails, Failure(r.err, Depth(r.lx))))
             ELSE Result(Commit(r.lx), NoError, r.val))

\* alternatives() of praseValue, from the i-th alternative on
ValueFrom(lx, i, fails) ==
    IF i > ValueAlternatives THEN Result(lx, AlternativesError(fails), Null)
    ELSE Bind(ValueAlternative(Begin(lx), i), LAMBDA r :
             IF IsError(r.err)
             THEN ValueFrom(Rollback(r.lx), i + 1, Append(fails, Failure(r.err, Depth(r.lx))))
             ELSE Result(Commit(r.lx), NoError, r.val))

\* praseValue()
PraseValue(lx) == ValueFrom(lx, 1, <<>>)

\* ParseProperty, but a value that does not parse is left undefined
ParsePropertyNoValue(lx) ==
    Bind(Consume(lx, "IDENTIFIER"), LAMBDA t :
        IF IsError(t.err) THEN t
        ELSE Bind(Consume(t.lx, "EQUAL"), LAMBDA eq :
                 IF IsError(eq.err) THEN eq
                 ELSE Bind(PraseValue(eq.lx), LAMBDA v :
                          IF IsError(v.err)
                          THEN Result(v.lx, NoError,
                                      NodeProperty(Undefined, t.val.value, Undefined,
                                                   t.val.text \o <<"=">>, t.val.line))
                          ELSE Result(v.lx, NoError,
                                      NodeProperty(v.val.type, t.val.value, v.val.value,
                                                   t.val.text \o <<"=">> \o v.val.text,
                                                   t.val.line)))))

\* parseProperty()
ParseProperty(lx) ==
    Bind(Consume(lx, "IDENTIFIER"), LAMBDA t :
        IF IsError(t.err) THEN t
        ELSE Bind(Consume(t.lx, "EQUAL"), LAMBDA eq :
                 IF IsError(eq.err) THEN eq
                 ELSE Bind(PraseValue(eq.lx), LAMBDA v :
                          IF IsError(v.err) THEN v
                          ELSE Result(v.lx, NoError,
                                      NodeProperty(v.val.type, t.val.value, v.val.value,
                                                   t.val.text \o <<"=">> \o v.val.text,
                                                   t.val.line)))))

---------------------------------------------------------------------------
(* parseTag *)

\* new Tag(name): #fields is keyed by the fields' names as strings
NewTag(name, line, pos) ==
    [name |-> name, line |-> line, pos |-> pos, text |-> <<>>,
     fields |-> [x \in {} |-> Undefined]]

\* tag.addField(key, value)
AddField(tag, key, value) ==
    [tag EXCEPT !.fields = (StringOf(key) :> value) @@ tag.fields]

\* tag.getField(key)
GetField(tag, key) ==
    IF key \in DOMAIN tag.fields THEN tag.fields[key] ELSE Undefined

RECURSIVE FieldLoop(_, _, _)
\* the while loop of parseTag: the fields up to "]" or the end of input
FieldLoop(lx, tag, texts) ==
    Bind(LexPeek(lx), LAMBDA t :
        IF IsError(t.err) THEN Result(t.lx, t.err, Null)
        ELSE IF t.val.type \in {"BRACKET_CLOSE", "EOF"}
             THEN Result(t.lx, NoError, [tag |-> tag, texts |-> texts])
        ELSE Bind(ParseProperty(t.lx), LAMBDA field :
                 IF IsError(field.err) THEN Result(field.lx, field.err, Null)
                 ELSE FieldLoop(field.lx, AddField(tag, field.val.name, field.val.value),
                                Append(texts, field.val.text))))

\* the second part of a tag's name: the ":" or "." and an identifier
TagNameRest(lx, id) ==
    Bind(LexToken(lx), LAMBDA type :
    Bind(Consume(type.lx, "IDENTIFIER"), LAMBDA value :
        IF IsError(value.err) THEN value
        ELSE Result(value.lx, NoError,
                    Str(StringOf(id.value) \o StringOf(type.val.value)
                        \o StringOf(value.val.value)))))

\* the tag's name: an identifier, or identifier (":" | ".") identifier
TagName(lx) ==
    Bind(Consume(lx, "IDENTIFIER"), LAMBDA id :
        IF IsError(id.err) THEN id
        ELSE Bind(LexPeek(id.lx), LAMBDA t :
                 IF IsError(t.err) THEN Result(t.lx, t.err, Null)
                 ELSE IF t.val.type \in {"COLON", "PERIOD"} THEN TagNameRest(t.lx, id.val)
                 ELSE Result(t.lx, NoError, id.val.value)))

\* the tag with its fields and its text, after the "]"
TagClose(lx, tag, texts) ==
    Bind(Consume(lx, "BRACKET_CLOSE"), LAMBDA close :
        IF IsError(close.err) THEN close
        ELSE Result(close.lx, NoError,
                    [tag EXCEPT !.text = <<"[">> \o JoinTexts(texts, <<" ">>) \o <<"]">>]))

\* parseTag()
ParseTag(lx) ==
    Bind(Consume(lx, "BRACKET_OPEN"), LAMBDA token :
        IF IsError(token.err) THEN token
        ELSE Bind(TagName(token.lx), LAMBDA name :
                 IF IsError(name.err) THEN name
                 ELSE Bind(FieldLoop(name.lx, NewTag(name.val, token.val.line, token.val.pos),
                                     <<StringOf(name.val)>>), LAMBDA body :
                          IF IsError(body.err) THEN body
                          ELSE TagClose(body.lx, body.val.tag, body.val.texts))))

---------------------------------------------------------------------------
(* Scene and parseScene *)

K_id == <<"i", "d">>

K_path == <<"p", "a", "t", "h">>

K_type == <<"t", "y", "p", "e">>

K_uid == <<"u", "i", "d">>

K_name == <<"n", "a", "m", "e">>

K_parent == <<"p", "a", "r", "e", "n", "t">>

K_instance == <<"i", "n", "s", "t", "a", "n", "c", "e">>

K_script == <<"s", "c", "r", "i", "p", "t">>

K_unique == <<"u", "n", "i", "q", "u", "e", "_", "n", "a", "m", "e", "_", "i", "n", "_", "o", "w", "n", "e", "r">>

K_node == <<"n", "o", "d", "e">>

K_ext_resource == <<"e", "x", "t", "_", "r", "e", "s", "o", "u", "r", "c", "e">>

K_sub_resource == <<"s", "u", "b", "_", "r", "e", "s", "o", "u", "r", "c", "e">>

\* new Scene(), with path and mtime set by parse_scene.  root is a
\* SceneNode or undefined (0); objects holds the SceneNodes made, a node
\* being referred to (by root, nodes and children) by its place in it.
NewScene(path, mtime) ==
    [path |-> path, mtime |-> mtime, root |-> 0,
     externalResources |-> [x \in {} |-> Undefined],
     subResources |-> [x \in {} |-> Undefined],
     nodes |-> [x \in {} |-> 0],
     objects |-> <<>>]

RECURSIVE PropertyLoop(_, _)
\* while (peek().type === IDENTIFIER) parseProperty(): the properties
PropertyLoop(lx, properties) ==
    Bind(LexPeek(lx), LAMBDA t :
        IF IsError(t.err) THEN Result(t.lx, t.err, properties)
        ELSE IF t.val.type # "IDENTIFIER" THEN Result(t.lx, NoError, properties)
        ELSE Bind(ParseProperty(t.lx), LAMBDA property :
                 IF IsError(property.err) THEN Result(property.lx, property.err, properties)
                 ELSE PropertyLoop(property.lx, Append(properties, property.val))))

\* Body, but the properties' texts are left out
BodyOfTag(tag, properties) == tag.text

\* text.join("\n") of the tag's text and the properties' texts
Body(tag, properties) ==
    JoinTexts(<<tag.text>> \o [i \in 1..Len(properties) |-> properties[i].text], <<"\n">>)

\* the record of an ext_resource tag
ExtResource(tag) ==
    [body |-> tag.text, path |-> GetField(tag, K_path), type |-> GetField(tag, K_type),
     uid |-> GetField(tag, K_uid), id |-> GetField(tag, K_id), line |-> tag.line]

\* the record of a sub_resource tag with its properties
SubResource(tag, properties) ==
    [body |-> Body(tag, properties), path |-> GetField(tag, K_path),
     type |-> GetField(tag, K_type), uid |-> GetField(tag, K_uid),
     id |-> GetField(tag, K_id), line |-> tag.line, properties |-> properties]

\* FindProperty, but no property is ever found
FindNoProperty(properties, name) == 0

\* properties.find(p => p.name === name): its place, or 0
FindProperty(properties, name) ==
    IF \E i \in 1..Len(properties) : properties[i].name = Str(name)
    THEN CHOOSE i \in 1..Len(properties) :
             /\ properties[i].name = Str(name)
             /\ \A j \in 1..(i - 1) : properties[j].name # Str(name)
    ELSE 0

\* the paths of a node with a parent that is not ".", under the root
ChildPath(name, parent, rootPath) ==
    Bind(Str(StringOf(rootPath) \o <<"/">> \o StringOf(parent)), LAMBDA absParent :
        [ok |-> TRUE, parent |-> absParent,
         absolute |-> Str(absParent.s \o <<"/">> \o StringOf(name)),
         relative |-> Str(StringOf(parent) \o <<"/">> \o StringOf(name))])

\* the name, parent and paths of a node tag, with root the scene's root
\* when it has one: [ok, parent, absolute, relative]; not ok is the
\* TypeError of scene.root.path with no root
NodePath(name, parent, hasRoot, rootPath) ==
    IF ~Truthy(parent)
    THEN [ok |-> TRUE, parent |-> parent, absolute |-> name, relative |-> name]
    ELSE IF ~hasRoot
         THEN [ok |-> FALSE, parent |-> parent, absolute |-> name, relative |-> name]
    ELSE IF parent = Str(<<".">>)
         THEN [ok |-> TRUE, parent |-> rootPath,
               absolute |-> Str(StringOf(rootPath) \o <<"/">> \o StringOf(name)),
               relative |-> name]
    ELSE ChildPath(name, parent, rootPath)

\* properties.find(p => p.name === name)?.value, or undefined
PropertyValue(properties, name) ==
    Bind(FindProperty(properties, name), LAMBDA i :
        IF i = 0 THEN Undefined ELSE properties[i].value)

\* x ?? y
Coalesce(x, y) == IF x \in {Undefined, Null} THEN y ELSE x

\* new SceneNode(name, type) with the fields parseScene sets (the fields
\* of the editor's TreeItem: tooltip, contextValue, resourceUri, iconPath,
\* description, are left out)
SceneNode(tag, properties, np, resourcePath) ==
    [label |-> GetField(tag, K_name),
     className |-> Coalesce(GetField(tag, K_type),
                            Str(<<"P", "a", "c", "k", "e", "d", "S", "c", "e", "n", "e">>)),
     path |-> np.absolute,
     relativePath |-> np.relative,
     parent |-> np.parent,
     text |-> tag.text,
     body |-> Body(tag, properties),
     position |-> tag.pos,
     properties |-> properties,
     unique |-> Coalesce(PropertyValue(properties, K_unique), Bool(FALSE)),
     resourcePath |-> resourcePath,
     hasScript |-> FindProperty(properties, K_script) # 0,
     scriptId |-> IF FindProperty(properties, K_script) = 0 THEN Str(<<>>)
                  ELSE First(PropertyValue(properties, K_script)),
     children |-> <<>>]

\* if (parent === undefined) scene.root = node;
\* else if (parent) scene.nodes.get(parent)?.children.push(node);
\* for the node just made, the last of objects
AttachNode(scene, parent) ==
    IF parent = Undefined THEN [scene EXCEPT !.root = Len(scene.objects)]
    ELSE IF Truthy(parent) /\ parent \in DOMAIN scene.nodes
         THEN [scene EXCEPT !.objects[scene.nodes[parent]].children =
                                Append(@, Len(scene.objects))]
    ELSE scene

\* scene.nodes.set(path.absolute, node) for the node just made
IndexNode(scene, absolute) ==
    [scene EXCEPT !.nodes = (absolute :> Len(scene.objects)) @@ scene.nodes]

\* the scene with a new SceneNode for the tag: made, attached, indexed
InsertNode(scene, tag, properties, np, resourcePath) ==
    IndexNode(AttachNode([scene EXCEPT !.objects =
                             Append(scene.objects, SceneNode(tag, properties, np, resourcePath))],
                         np.parent),
              np.absolute)

\* InstanceNode, but an id with no resource leaves resourcePath undefined
InstanceNodeLenient(scene, tag, properties, np, instance) ==
    [scene |-> InsertNode(scene, tag, properties, np,
                          IF HasLength(instance)
                             /\ StringOf(First(instance)) \in DOMAIN scene.externalResources
                          THEN scene.externalResources[StringOf(First(instance))].path
                          ELSE Undefined),
     err |-> NoError]

\* the node branch of parseScene from the instance field on
InstanceNode(scene, tag, properties, np, instance) ==
    IF ~HasLength(instance)
    THEN [scene |-> InsertNode(scene, tag, properties, np, Undefined), err |-> NoError]
    ELSE Bind(StringOf(First(instance)), LAMBDA id :
             IF id \notin DOMAIN scene.externalResources
             THEN [scene |-> scene,
                   err |-> RuntimeError("TypeError",
                                        "cannot read properties of undefined (reading 'path')")]
             ELSE [scene |-> InsertNode(scene, tag, properties, np,
                                        scene.externalResources[id].path),
                   err |-> NoError])

\* the node branch of parseScene after the properties: the scene with the
\* node, or the TypeError of a lookup that failed
AddNode(scene, tag, properties) ==
    Bind(NodePath(GetField(tag, K_name), GetField(tag, K_parent), scene.root # 0,
                  IF scene.root # 0 THEN scene.objects[scene.root].path ELSE Undefined),
         LAMBDA np :
        IF ~np.ok
        THEN [scene |-> scene,
              err |-> RuntimeError("TypeError",
                                   "cannot read properties of undefined (reading 'path')")]
        ELSE InstanceNode(scene, tag, properties, np, GetField(tag, K_instance)))

\* what one pass of parseScene's loop leaves: the lexer, the scene, and
\* whether the loop goes on ("continue"), parseScene returns ("return") or
\* throws err ("throw")
Pass(lx, scene, status, err) == [lx |-> lx, scene |-> scene, status |-> status, err |-> err]

\* the sub_resource branch of parseScene
SubResourceBranch(lx, scene, tag) ==
    Bind(PropertyLoop(lx, <<>>), LAMBDA props :
        IF IsError(props.err) THEN Pass(props.lx, scene, "throw", props.err)
        ELSE Pass(props.lx,
                  [scene EXCEPT !.subResources =
                      (StringOf(GetField(tag, K_id)) :> SubResource(tag, props.val)) @@ @],
                  "continue", NoError))

\* the node branch of parseScene
NodeBranch(lx, scene, tag) ==
    Bind(PropertyLoop(lx, <<>>), LAMBDA props :
        IF IsError(props.err) THEN Pass(props.lx, scene, "throw", props.err)
        ELSE Bind(AddNode(scene, tag, props.val), LAMBDA added :
                 IF IsError(added.err) THEN Pass(props.lx, scene, "throw", added.err)
                 ELSE Pass(props.lx, added.scene, "continue", NoError)))

\* Dispatch, but a tag of any other name is taken for a node tag
DispatchAsNode(lx, scene, tag) ==
    IF tag.name = Str(K_ext_resource)
    THEN Pass(lx,
              [scene EXCEPT !.externalResources =
                  (StringOf(GetField(tag, K_id)) :> ExtResource(tag)) @@ @],
              "continue", NoError)
    ELSE IF tag.name = Str(K_sub_resource) THEN SubResourceBranch(lx, scene, tag)
    ELSE NodeBranch(lx, scene, tag)

\* the body of the loop for a tag parseTag returned
Dispatch(lx, scene, tag) ==
    IF tag.name = Str(K_ext_resource)
    THEN Pass(lx,
              [scene EXCEPT !.externalResources =
                  (StringOf(GetField(tag, K_id)) :> ExtResource(tag)) @@ @],
              "continue", NoError)
    ELSE IF tag.name = Str(K_sub_resource) THEN SubResourceBranch(lx, scene, tag)
    ELSE IF tag.name = Str(K_node) THEN NodeBranch(lx, scene, tag)
    ELSE Pass(lx, scene, "continue", NoError)

\* LoopPass, but a token that starts no tag is left where it is
LoopPassStuck(lx, scene) ==
    Bind(LexPeek(lx), LAMBDA t :
        IF IsError(t.err) THEN Pass(t.lx, scene, "throw", t.err)
        ELSE IF t.val.type = "EOF" THEN Pass(t.lx, scene, "return", NoError)
        ELSE IF t.val.column # 1 \/ t.val.type # "BRACKET_OPEN"
             THEN Pass(t.lx, scene, "continue", NoError)
        ELSE Bind(ParseTag(t.lx), LAMBDA tag :
                 IF IsError(tag.err) THEN Pass(tag.lx, scene, "throw", tag.err)
                 ELSE Dispatch(tag.lx, scene, tag.val)))

\* one pass of the for loop of parseScene: its test, then its body
LoopPass(lx, scene) ==
    Bind(LexPeek(lx), LAMBDA t :
        IF IsError(t.err) THEN Pass(t.lx, scene, "throw", t.err)
        ELSE IF t.val.type = "EOF" THEN Pass(t.lx, scene, "return", NoError)
        ELSE IF t.val.column # 1 \/ t.val.type # "BRACKET_OPEN"
             THEN Pass(LexToken(t.lx).lx, scene, "continue", NoError)
        ELSE Bind(ParseTag(t.lx), LAMBDA tag :
                 IF IsError(tag.err) THEN Pass(tag.lx, scene, "throw", tag.err)
                 ELSE Dispatch(tag.lx, scene, tag.val)))

RECURSIVE RunLoop(_, _)
\* parseScene to its end
RunLoop(lx, scene) ==
    Bind(LoopPass(lx, scene), LAMBDA p :
        IF p.status = "continue" THEN RunLoop(p.lx, p.scene) ELSE p)

---------------------------------------------------------------------------
(* SceneParser.parse_scene and the program's steps *)

\* document.uri.fsPath of the one document of the model
DocPath == "res://main.tscn"

\* ParserInput, but the lexer is given the text with no reset()
ParserInputKeep(lx, text) == [lx EXCEPT !.input = text, !.len = Len(text)]

\* Parser.input(text): the shared instance, its lexer given the text
ParserInput(lx, text) == LexerInput(lx, text)

\* what a parse_scene call did: kind is "none" before the first call,
\* "running" inside parseScene, then "returned" or "threw"; hit says that
\* the Scene came from the cache; scene is the Scene returned, or the Scene
\* the parse that threw was filling
Outcome(kind, hit, err, scene) == [kind |-> kind, hit |-> hit, err |-> err, scene |-> scene]

NoScene == [path |-> "", mtime |-> -1]

\* ParseScene, but the Scene cached for the path is returned whatever its
\* mtime
ParseSceneStale ==
    /\ pc = "idle"
    /\ IF DocPath \in DOMAIN scenes
       THEN /\ outcome' = Outcome("returned", TRUE, NoError, scenes[DocPath])
            /\ UNCHANGED <<scenes, lexer, pc>>
       ELSE /\ scenes' = (DocPath :> NewScene(DocPath, doc.mtime)) @@ scenes
            /\ lexer' = ParserInput(lexer, doc.text)
            /\ pc' = "loop"
            /\ outcome' = Outcome("running", FALSE, NoError, NoScene)
    /\ UNCHANGED <<versions, doc, probe>>

\* parse_scene(document) up to the call of parseScene: the cached Scene
\* when its mtime is the file's, else a new Scene put in the cache and the
\* lexer given the text
ParseScene ==
    /\ pc = "idle"
    /\ IF DocPath \in DOMAIN scenes /\ scenes[DocPath].mtime = doc.mtime
       THEN /\ outcome' = Outcome("returned", TRUE, NoError, scenes[DocPath])
            /\ UNCHANGED <<scenes, lexer, pc>>
       ELSE /\ scenes' = (DocPath :> NewScene(DocPath, doc.mtime)) @@ scenes
            /\ lexer' = ParserInput(lexer, doc.text)
            /\ pc' = "loop"
            /\ outcome' = Outcome("running", FALSE, NoError, NoScene)
    /\ UNCHANGED <<versions, doc, probe>>

\* one pass of parseScene's loop on the Scene in the cache; parse_scene
\* returns what parseScene returns, and throws what it throws
Loop ==
    /\ pc = "loop"
    /\ \E p \in {LoopPass(lexer, scenes[DocPath])} :
           /\ lexer' = p.lx
           /\ scenes' = [scenes EXCEPT ![DocPath] = p.scene]
           /\ pc' = IF p.status = "continue" THEN "loop" ELSE "idle"
           /\ outcome' = CASE p.status = "continue" -> outcome
                           [] p.status = "return" -> Outcome("returned", FALSE, NoError, p.scene)
                           [] p.status = "throw" -> Outcome("threw", FALSE, p.err, p.scene)
    /\ UNCHANGED <<versions, doc, probe>>

\* the number of times the file is saved in a run
MaxEdits == 1

\* the file is saved with one of its versions as its text
Modify ==
    /\ pc = "idle"
    /\ doc.mtime < MaxEdits
    /\ \E i \in 1..Len(versions) :
           doc' = [text |-> versions[i], mtime |-> doc.mtime + 1]
    /\ UNCHANGED <<versions, scenes, lexer, pc, outcome, probe>>

Next == ParseScene \/ Loop \/ Modify

---------------------------------------------------------------------------
(* The texts *)

\* [node name="A"]
NodeA ==
    <<"[", "n", "o", "d", "e", " ", "n", "a", "m", "e", "=", "\"", "A", "\"", "]">>

\* [node name="B" parent="."]
NodeB ==
    <<"[", "n", "o", "d", "e", " ", "n", "a", "m", "e", "=", "\"", "B", "\"", " ", "p", "a", "r", "e", "n", "t", "=", "\"", ".", "\"", "]">>

\* [node name="C" parent="B"]
NodeC ==
    <<"[", "n", "o", "d", "e", " ", "n", "a", "m", "e", "=", "\"", "C", "\"", " ", "p", "a", "r", "e", "n", "t", "=", "\"", "B", "\"", "]">>

\* [node name="D" parent=""]
NodeD ==
    <<"[", "n", "o", "d", "e", " ", "n", "a", "m", "e", "=", "\"", "D", "\"", " ", "p", "a", "r", "e", "n", "t", "=", "\"", "\"", "]">>

\* [node name="E" parent="Z"]
NodeE ==
    <<"[", "n", "o", "d", "e", " ", "n", "a", "m", "e", "=", "\"", "E", "\"", " ", "p", "a", "r", "e", "n", "t", "=", "\"", "Z", "\"", "]">>

\* [node name=""]
NodeR ==
    <<"[", "n", "o", "d", "e", " ", "n", "a", "m", "e", "=", "\"", "\"", "]">>

\* [node name=]
NoValue ==
    <<"[", "n", "o", "d", "e", " ", "n", "a", "m", "e", "=", "]">>

\* [node name="B" parent=]
NoParentValue ==
    <<"[", "n", "o", "d", "e", " ", "n", "a", "m", "e", "=", "\"", "B", "\"", " ", "p", "a", "r", "e", "n", "t", "=", "]">>

\* [node name="F"]\nk=]
NoPropertyValue ==
    <<"[", "n", "o", "d", "e", " ", "n", "a", "m", "e", "=", "\"", "F", "\"", "]", "\n", "k", "=", "]">>

\* the lines of a text
JoinLines(lines) == JoinTexts(lines, <<"\n">>)

\* the sequences of at most n elements of S
SeqsUpTo(S, n) == UNION {[1..k -> S] : k \in 0..n}

\* the number of node tags of a text
MaxTags == 3

\* texts of node tags, one a line
NodeTexts ==
    {JoinLines(tags) : tags \in SeqsUpTo({NodeA, NodeB, NodeC, NodeD, NodeE, NodeR}, MaxTags)}

\* texts that end with a malformed node tag
MalformedTexts ==
    {JoinLines(pre \o <<bad>>) : pre \in {<<>>, <<NodeA>>, <<NodeA, NodeB>>},
                                 bad \in {NoValue, NoParentValue, NoPropertyValue}}

\* [ext_resource path="p" id="1"]
ExtOne ==
    <<"[", "e", "x", "t", "_", "r", "e", "s", "o", "u", "r", "c", "e", " ", "p", "a", "t", "h", "=", "\"", "p", "\"", " ", "i", "d", "=", "\"", "1", "\"", "]">>

\* [node name="S"]\nscript = ExtResource("1")
Scripted ==
    <<"[", "n", "o", "d", "e", " ", "n", "a", "m", "e", "=", "\"", "S", "\"", "]", "\n", "s", "c", "r", "i", "p", "t", " ", "=", " ", "E", "x", "t", "R", "e", "s", "o", "u", "r", "c", "e", "(", "\"", "1", "\"", ")">>

\* [node name="A"]\n[node name="I" parent="." instance=ExtResource("1")]
Instanced ==
    <<"[", "n", "o", "d", "e", " ", "n", "a", "m", "e", "=", "\"", "A", "\"", "]", "\n", "[", "n", "o", "d", "e", " ", "n", "a", "m", "e", "=", "\"", "I", "\"", " ", "p", "a", "r", "e", "n", "t", "=", "\"", ".", "\"", " ", "i", "n", "s", "t", "a", "n", "c", "e", "=", "E", "x", "t", "R", "e", "s", "o", "u", "r", "c", "e", "(", "\"", "1", "\"", ")", "]">>

\* [sub_resource type="T" id="2"]\nk = 1\nm = [1, 2]
SubTwo ==
    <<"[", "s", "u", "b", "_", "r", "e", "s", "o", "u", "r", "c", "e", " ", "t", "y", "p", "e", "=", "\"", "T", "\"", " ", "i", "d", "=", "\"", "2", "\"", "]", "\n", "k", " ", "=", " ", "1", "\n", "m", " ", "=", " ", "[", "1", ",", " ", "2", "]">>

\* [node name="M"]\nt = "x\ny"
Multi ==
    <<"[", "n", "o", "d", "e", " ", "n", "a", "m", "e", "=", "\"", "M", "\"", "]", "\n", "t", " ", "=", " ", "\"", "x", "\n", "y", "\"">>

\* [gd_scene format=3]
OtherTag ==
    <<"[", "g", "d", "_", "s", "c", "e", "n", "e", " ", "f", "o", "r", "m", "a", "t", "=", "3", "]">>

\* x [node name="Q"]
Indented ==
    <<"x", " ", "[", "n", "o", "d", "e", " ", "n", "a", "m", "e", "=", "\"", "Q", "\"", "]">>

\* [node name="U"
Unclosed ==
    <<"[", "n", "o", "d", "e", " ", "n", "a", "m", "e", "=", "\"", "U", "\"">>

\* the sections of a text; the empty one ends a text with a line feed
Sections ==
    {ExtOne, Scripted, Instanced, SubTwo, Multi, OtherTag, Indented, Unclosed, <<>>}

\* the number of sections of a text
MaxSections == 2

\* texts of sections, one after the other
SectionTexts == {JoinLines(sections) : sections \in SeqsUpTo(Sections, MaxSections)}

Texts == NodeTexts \cup MalformedTexts \cup SectionTexts

\* the state after construction: no Scene cached, Parser.instance new
Start(vs, at) ==
    /\ versions = vs
    /\ doc = [text |-> vs[1], mtime |-> 0]
    /\ scenes = [x \in {} |-> NoScene]
    /\ lexer = NewLexer
    /\ pc = at
    /\ outcome = Outcome("none", FALSE, NoError, NoScene)
    /\ probe = <<>>

Init == \E t \in Texts : Start(<<t>>, "idle")

Spec == Init /\ [][Next]_vars

\* parse_scene is synchronous: a parse that has begun goes on, pass after
\* pass of parseScene's loop
SpecLive == Spec /\ WF_vars(Loop)

---------------------------------------------------------------------------
(* Parser.input(text).parse(parseScene, new Scene), run after run on the   *)
(* shared Parser, with no cache between the runs                           *)

\* the number of runs
MaxRuns == 3

\* what a run gave
RunResult(text, p) == [text |-> text, status |-> p.status, err |-> p.err, scene |-> p.scene]

\* one run on one of the texts, from the lexer the run before left
Run ==
    /\ pc = "run"
    /\ Len(probe) < MaxRuns
    /\ \E i \in 1..Len(versions) :
           \E p \in {RunLoop(ParserInput(lexer, versions[i]), NewScene(DocPath, 0))} :
               /\ lexer' = p.lx
               /\ probe' = Append(probe, RunResult(versions[i], p))
    /\ UNCHANGED <<versions, doc, scenes, pc, outcome>>

\* texts a run returns from, and texts that abort a run at their start, in
\* the middle of a tag and after a node
ReuseTexts ==
    {JoinLines(<<NodeA, NodeB, NodeC>>), JoinLines(<<NodeA, NodeB, NodeB>>),
     JoinLines(<<NodeR, NodeB>>), NodeB, JoinLines(<<NodeA, NoValue>>),
     NoPropertyValue, JoinLines(<<NodeA, NoParentValue, NodeC>>)}

InitReuse == \E t \in ReuseTexts, u \in ReuseTexts : Start(<<t, u>>, "run")

SpecReuse == InitReuse /\ [][Run]_vars

---------------------------------------------------------------------------
(* The lexer alone: token() until the end of a text *)

\* (1, 2.5, "a,b")
ParenQuotedComma ==
    <<"(", "1", ",", " ", "2", ".", "5", ",", " ", "\"", "a", ",", "b", "\"", ")">>

\* ("a", 2)
ParenQuoted == <<"(", "\"", "a", "\"", ",", " ", "2", ")">>

\* (1,2)
ParenNumbers == <<"(", "1", ",", "2", ")">>

\* the pieces of the lexer's texts, the first the comment "; c"
LexFragments ==
    {<<";", " ", "c">>, ParenQuotedComma, ParenQuoted, ParenNumbers, <<"\n">>, <<" ">>, <<"[">>,
     <<"x">>, <<"@">>, <<"\"", "s", "\"">>}

\* the number of pieces of a text
MaxLexFrags == 3

RECURSIVE Concat(_)
\* the texts of a sequence, joined
Concat(texts) == IF Len(texts) = 0 THEN <<>> ELSE texts[1] \o Concat(Tail(texts))

LexTexts == {Concat(frags) : frags \in SeqsUpTo(LexFragments, MaxLexFrags)}

\* token() once more: probe is the tokens so far, outcome the error thrown
NextToken ==
    /\ pc = "lex"
    /\ \E r \in {LexToken(lexer)} :
           /\ lexer' = r.lx
           /\ IF IsError(r.err)
              THEN /\ outcome' = Outcome("threw", FALSE, r.err, NoScene)
                   /\ pc' = "idle"
                   /\ probe' = probe
              ELSE IF r.val = Null
              THEN /\ outcome' = Outcome("returned", FALSE, NoError, NoScene)
                   /\ pc' = "idle"
                   /\ probe' = probe
              ELSE /\ outcome' = outcome
                   /\ pc' = IF r.val.type = "EOF" THEN "idle" ELSE "lex"
                   /\ probe' = Append(probe, r.val)
    /\ UNCHANGED <<versions, doc, scenes>>

\* the lexer given the text, as Parser.input gives it
StartLex(text) ==
    /\ versions = <<text>>
    /\ doc = [text |-> text, mtime |-> 0]
    /\ scenes = [x \in {} |-> NoScene]
    /\ lexer = ParserInput(NewLexer, text)
    /\ pc = "lex"
    /\ outcome = Outcome("none", FALSE, NoError, NoScene)
    /\ probe = <<>>

InitLex == \E t \in LexTexts : StartLex(t)

SpecLex == InitLex /\ [][NextToken]_vars

---------------------------------------------------------------------------
(* parseTag on the text of a tag, then on the text parseTag gave the tag *)

\* the fields of the tags' texts: a=1, b="s", c=V(1, 2), d=[1, "x"],
\* e={"k": 1}, f={}, g=&"n", h=true, and a= with no value
FieldTexts ==
    {<<" ", "a", "=", "1">>,
     <<" ", "b", "=", "\"", "s", "\"">>,
     <<" ", "c", "=", "V", "(", "1", ",", " ", "2", ")">>,
     <<" ", "d", "=", "[", "1", ",", " ", "\"", "x", "\"", "]">>,
     <<" ", "e", "=", "{", "\"", "k", "\"", ":", " ", "1", "}">>,
     <<" ", "f", "=", "{", "}">>,
     <<" ", "g", "=", "&", "\"", "n", "\"">>,
     <<" ", "h", "=", "t", "r", "u", "e">>,
     <<" ", "a", "=">>}

\* the number of fields of a tag
MaxFields == 2

\* the texts of tags: [n or [a:b, fields, ]
TagTexts ==
    {open \o Concat(fields) \o <<"]">> :
        open \in {<<"[", "n">>, <<"[", "a", ":", "b">>},
        fields \in SeqsUpTo(FieldTexts, MaxFields)}

\* Parser.input(text).parse(parseTag) on the text of the document
ParseFirst ==
    /\ pc = "tag"
    /\ \E r \in {ParseTag(ParserInput(lexer, doc.text))} :
           /\ lexer' = r.lx
           /\ probe' = <<r>>
           /\ pc' = IF IsError(r.err) THEN "idle" ELSE "again"
    /\ UNCHANGED <<versions, doc, scenes, outcome>>

\* Parser.input(tag.text).parse(parseTag) on the text of the tag parsed
ParseAgain ==
    /\ pc = "again"
    /\ \E r \in {ParseTag(ParserInput(lexer, probe[1].val.text))} :
           /\ lexer' = r.lx
           /\ probe' = Append(probe, r)
           /\ pc' = "idle"
    /\ UNCHANGED <<versions, doc, scenes, outcome>>

NextTag == ParseFirst \/ ParseAgain

InitTag == \E t \in TagTexts : Start(<<t>>, "tag")

SpecTag == InitTag /\ [][NextTag]_vars

---------------------------------------------------------------------------
(* Parser.input(text).praseValue() on the text of a value *)

\* A literal: a token (its type, text and value), an array of literals, a
\* dictionary of pairs <<key token, value literal>>.
Leaf(type, text, value) == [k |-> "leaf", type |-> type, text |-> text, value |-> value]

Arr(items) == [k |-> "arr", items |-> items]

Dic(pairs) == [k |-> "dic", pairs |-> pairs]

RECURSIVE Render(_)
\* the text of a literal, as a scene file writes it
Render(lit) ==
    CASE lit.k = "leaf" -> lit.text
      [] lit.k = "arr" ->
             <<"[">> \o JoinTexts([i \in 1..Len(lit.items) |-> Render(lit.items[i])],
                                  <<",", " ">>) \o <<"]">>
      [] lit.k = "dic" ->
             <<"{">> \o JoinTexts([i \in 1..Len(lit.pairs) |->
                                      Render(lit.pairs[i][1]) \o <<":", " ">>
                                      \o Render(lit.pairs[i][2])], <<",", " ">>) \o <<"}">>

\* the tokens 1 and "a"
Leaves ==
    {Leaf("NUMBER", <<"1">>, NormNum(1, 0)), Leaf("STRING", <<"\"", "a", "\"">>, Str(<<"a">>))}

\* the keys 1, "a", &"a" and a
Keys ==
    Leaves \cup {Leaf("STRING_NAME", <<"&", "\"", "a", "\"">>, Str(<<"a">>)),
                 Leaf("IDENTIFIER", <<"a">>, Str(<<"a">>))}

\* the literals nested in a literal: [], [1], [[1]], {}, {"a": 1}
Nested ==
    {Arr(<<>>), Arr(<<Leaf("NUMBER", <<"1">>, NormNum(1, 0))>>),
     Arr(<<Arr(<<Leaf("NUMBER", <<"1">>, NormNum(1, 0))>>)>>), Dic(<<>>),
     Dic(<<<<Leaf("STRING", <<"\"", "a", "\"">>, Str(<<"a">>)),
             Leaf("NUMBER", <<"1">>, NormNum(1, 0))>>>>)}

\* the number of elements of an array and of pairs of a dictionary
MaxItems == 2

\* the well-formed literals
Literals ==
    {Arr(items) : items \in SeqsUpTo(Leaves \cup Nested, MaxItems)}
    \cup {Dic(pairs) :
             pairs \in SeqsUpTo(Keys \X {Leaf("NUMBER", <<"1">>, NormNum(1, 0)), Arr(<<>>),
                                         Dic(<<<<Leaf("STRING", <<"\"", "a", "\"">>, Str(<<"a">>)),
                                                 Leaf("NUMBER", <<"1">>, NormNum(1, 0))>>>>)},
                                MaxItems)}

\* texts of one value and a token after it, and texts no value starts:
\* a, a 1, V(1), V(1) 1, 1 a, "a" =, #ff, = 1, ] 1, ) a, [1 =], {a 1}, a(
OtherValues ==
    {Leaf("IDENTIFIER", <<"a">>, Str(<<"a">>)),
     Leaf("IDENTIFIER", <<"a", " ", "1">>, Str(<<"a">>)),
     Leaf("CONSTRUCT", <<"V", "(", "1", ")">>, Undefined),
     Leaf("CONSTRUCT", <<"V", "(", "1", ")", " ", "1">>, Undefined),
     Leaf("NUMBER", <<"1", " ", "a">>, NormNum(1, 0)),
     Leaf("STRING", <<"\"", "a", "\"", " ", "=">>, Str(<<"a">>)),
     Leaf("COLOR", <<"#", "f", "f">>, Str(<<"#", "f", "f">>)),
     Leaf("NONE", <<"=", " ", "1">>, Undefined),
     Leaf("NONE", <<"]", " ", "1">>, Undefined),
     Leaf("NONE", <<")", " ", "a">>, Undefined),
     Leaf("NONE", <<"[", "1", " ", "=", "]">>, Undefined),
     Leaf("NONE", <<"{", "a", " ", "1", "}">>, Undefined),
     Leaf("NONE", <<"a", "(">>, Undefined)}

\* praseValue() on the text of the document; probe is the lexer before and
\* what praseValue gave
ParseValue ==
    /\ pc = "value"
    /\ \E lx \in {ParserInput(lexer, doc.text)} :
           \E r \in {PraseValue(lx)} :
               /\ lexer' = r.lx
               /\ probe' = <<lx, r>>
               /\ pc' = "idle"
    /\ UNCHANGED <<versions, doc, scenes, outcome>>

InitValue ==
    \E lit \in Literals \cup OtherValues :
        /\ versions = <<lit>>
        /\ doc = [text |-> Render(lit), mtime |-> 0]
        /\ scenes = [x \in {} |-> NoScene]
        /\ lexer = NewLexer
        /\ pc = "value"
        /\ outcome = Outcome("none", FALSE, NoError, NoScene)
        /\ probe = <<>>

SpecValue == InitValue /\ [][ParseValue]_vars

---------------------------------------------------------------------------
(* The properties *)

\* the node tag a pass of parseScene's loop is about to process: the tag
\* parseTag returns at a "[" in column 1, named node, with properties that
\* parse
NodeTagAhead ==
    IF pc # "loop" THEN {}
    ELSE {r.val : r \in {x \in {ParseTag(lexer)} :
                            /\ ~IsError(x.err)
                            /\ LexPeek(lexer).val.column = 1
                            /\ x.val.name = Str(K_node)
                            /\ ~IsError(PropertyLoop(x.lx, <<>>).err)}}

\* a + "/" + b
Slash(a, b) == Str(StringOf(a) \o <<"/">> \o StringOf(b))

\* the path of the root of a scene that has one
RootPath(scene) == scene.objects[scene.root].path

\* the pass made a SceneNode, the last of the scene's objects
NodeMade == Len(scenes'[DocPath].objects) = Len(scenes[DocPath].objects) + 1

\* the SceneNode the pass made
MadeNode == scenes'[DocPath].objects[Len(scenes'[DocPath].objects)]

\* the paths C1 gives the node of a tag, in the scene the pass finds
PathsAsClaimed(tag, scene) ==
    IF GetField(tag, K_parent) = Undefined
    THEN /\ scenes'[DocPath].root = Len(scenes'[DocPath].objects)
         /\ MadeNode.path = GetField(tag, K_name)
         /\ MadeNode.relativePath = GetField(tag, K_name)
    ELSE /\ scene.root # 0
         /\ IF GetField(tag, K_parent) = Str(<<".">>)
            THEN /\ MadeNode.relativePath = GetField(tag, K_name)
                 /\ MadeNode.path = Slash(RootPath(scene), GetField(tag, K_name))
            ELSE /\ MadeNode.relativePath = Slash(GetField(tag, K_parent), GetField(tag, K_name))
                 /\ MadeNode.path = Slash(Slash(RootPath(scene), GetField(tag, K_parent)),
                                          GetField(tag, K_name))

\* C1: for every sequence of node tags, the pass that processes a node tag
\* makes a node with the paths the tag's name and parent give: with no
\* parent field the node is the root and path = relativePath = name; with
\* parent "." relativePath = name and path = root.path/name; with any other
\* parent p relativePath = p/name and path = root.path/p/name.
C1_PathResolution ==
    [][\A tag \in NodeTagAhead : NodeMade /\ PathsAsClaimed(tag, scenes[DocPath])]_vars

RECURSIVE Subtree(_, _)
\* the nodes reachable from the node id through children lists
Subtree(scene, id) ==
    {id} \cup UNION {Subtree(scene, scene.objects[id].children[i]) :
                        i \in 1..Len(scene.objects[id].children)}

\* the nodes reachable from the root of a scene
Reachable(scene) == IF scene.root = 0 THEN {} ELSE Subtree(scene, scene.root)

\* C2: after parseScene returns, every node reachable from the root is in
\* nodes exactly once, under its own absolute path, and no two nodes of the
\* tree share an absolute path.
C2_NodesIndexTree ==
    (pc = "idle" /\ outcome.kind = "returned") =>
        \A id \in Reachable(outcome.scene) :
            /\ outcome.scene.objects[id].path \in DOMAIN outcome.scene.nodes
            /\ \A key \in DOMAIN outcome.scene.nodes :
                   outcome.scene.nodes[key] = id <=> key = outcome.scene.objects[id].path
            /\ \A other \in Reachable(outcome.scene) :
                   other # id => outcome.scene.objects[other].path # outcome.scene.objects[id].path

\* the absolute path of the parent a tag names, in a scene with a root
ParentPath(tag, scene) ==
    IF GetField(tag, K_parent) = Str(<<".">>) THEN RootPath(scene)
    ELSE Slash(RootPath(scene), GetField(tag, K_parent))

\* the node tag has a parent field that names a node declared before it
ParentDeclared(tag, scene) ==
    /\ GetField(tag, K_parent) # Undefined
    /\ scene.root # 0
    /\ ParentPath(tag, scene) \in DOMAIN scene.nodes

\* the pass left every children list as it was, but the list of the node id
\* when id is not 0
ChildrenKept(id) ==
    \A i \in 1..Len(scenes[DocPath].objects) :
        i # id => scenes'[DocPath].objects[i].children = scenes[DocPath].objects[i].children

\* C3: a node whose tag has a parent field naming a node declared before it
\* is appended, as the last element, to the children list of the node that
\* nodes holds under the absolute parent path, and to no other list.
C3_ChildrenAppended ==
    [][\A tag \in NodeTagAhead :
           ParentDeclared(tag, scenes[DocPath]) =>
               /\ NodeMade
               /\ scenes'[DocPath].objects[scenes[DocPath].nodes[ParentPath(tag, scenes[DocPath])]].children
                      = Append(scenes[DocPath].objects[scenes[DocPath].nodes[ParentPath(tag, scenes[DocPath])]].children,
                               Len(scenes'[DocPath].objects))
               /\ ChildrenKept(scenes[DocPath].nodes[ParentPath(tag, scenes[DocPath])])]_vars

\* C4: after parse_scene threw, no later parse_scene call on the unchanged
\* file returns the Scene the aborted parse had filled.
C4_NoPartialScene ==
    [][(outcome.kind = "threw" /\ doc' = doc) =>
           ~(outcome'.kind = "returned" /\ outcome'.scene = outcome.scene)]_vars

\* the number of line feeds of a text
LineFeeds(text) == Cardinality({i \in 1..Len(text) : text[i] = "\n"})

\* the place of the last line feed of a text, or 0
LastLineFeed(text) ==
    IF LineFeeds(text) = 0 THEN 0
    ELSE CHOOSE i \in 1..Len(text) :
             text[i] = "\n" /\ \A j \in (i + 1)..Len(text) : text[j] # "\n"

\* the error that refers to the last character of the text
UnexpectedLast(text) ==
    ParsingError("unexpected token", Len(text) - 1, LineFeeds(text) + 1,
                 Len(text) - LastLineFeed(text))

\* C5: a text that ends with a node tag or a property whose value is
\* missing before "]" makes the parse throw the unexpected-token error at
\* the position of that "]"; and the pass of the loop that throws, whatever
\* the error, leaves the scene (nodes, root, children lists) as it found it.
C5_MissingValue ==
    [][pc = "loop" =>
           /\ (doc.text \in MalformedTexts /\ pc' = "idle") =>
                  /\ outcome'.kind = "threw"
                  /\ outcome'.err = UnexpectedLast(doc.text)
           /\ outcome'.kind = "threw" => scenes'[DocPath] = scenes[DocPath]]_vars

\* C5, its case: [node name="A"] then [node name=] threw at the "]", the
\* scene holding the node A alone
C5_Witness ==
    /\ doc.text = JoinLines(<<NodeA, NoValue>>)
    /\ outcome.kind = "threw"
    /\ outcome.err.pos = 27
    /\ outcome.err.line = 2
    /\ outcome.err.column = 12
    /\ DOMAIN scenes[DocPath].nodes = {Str(<<"A">>)}
    /\ Len(scenes[DocPath].objects) = 1

\* C6: for every input text tokenization never fails with "token not
\* recognized": white space and comments are discarded and lexing goes on
\* with the text after them.
C6_EveryTextTokenizes ==
    ~(outcome.kind = "threw" /\ outcome.err.msg = "token not recognized")

\* two runs had the same outcome
SameOutcome(a, b) == a.status = b.status /\ a.err = b.err /\ a.scene = b.scene

ParentUnknown(tag, scene) ==
    /\ Truthy(GetField(tag, K_parent))
    /\ scene.root = 0 \/ ParentPath(tag, scene) \notin DOMAIN scene.nodes

\* C8: a node whose parent is not known when its tag is processed does not
\* make the parse fail: the node is put in nodes under its path, no
\* children list changes, and the loop goes on.
C8_UnknownParent ==
    [][\A tag \in NodeTagAhead :
           ParentUnknown(tag, scenes[DocPath]) =>
               /\ outcome'.kind # "threw"
               /\ NodeMade
               /\ MadeNode.path \in DOMAIN scenes'[DocPath].nodes
               /\ scenes'[DocPath].nodes[MadeNode.path] = Len(scenes'[DocPath].objects)
               /\ ChildrenKept(0)]_vars

\* the tokens of type ARRAY lexed so far
ArrayTokens == {probe[i] : i \in {j \in 1..Len(probe) : probe[j].type = "ARRAY"}}

\* the number of commas of a text
Commas(text) == Cardinality({i \in 1..Len(text) : text[i] = ","})

\* C9 as amended: a parenthesized list is one ARRAY token whose value has
\* one element for each piece between commas, commas inside quotes
\* included; a piece wholly in quotes is its text without the quotes, any
\* other piece is Number(piece), so (1, 2.5, "a,b") gives 1, 2.5, NaN, NaN.
C9_ParenListValue ==
    pc \in {"lex", "idle"} =>
        \A t \in ArrayTokens :
            /\ t.text \in {ParenQuotedComma, ParenQuoted, ParenNumbers}
            /\ t.value.k = "list"
            /\ Len(t.value.items) = Commas(t.text) + 1
            /\ t.text = ParenQuotedComma =>
                   t.value.items = <<NormNum(1, 0), NormNum(25, -1), NaN, NaN>>
            /\ t.text = ParenQuoted => t.value.items = <<Str(<<"a">>), NormNum(2, 0)>>
            /\ t.text = ParenNumbers => t.value.items = <<NormNum(1, 0), NormNum(2, 0)>>

\* C9, its case: the token of (1, 2.5, "a,b") lexed
C9_Witness ==
    \E t \in ArrayTokens :
        /\ t.text = ParenQuotedComma
        /\ t.value.items = <<NormNum(1, 0), NormNum(25, -1), NaN, NaN>>

\* C9 as stated: the ARRAY token of (1, 2.5, "a,b") has the value 1, 2.5,
\* "a and b", the halves of the quoted argument kept as text.
C9_HalvesKeptAsText ==
    \A t \in ArrayTokens :
        t.text = ParenQuotedComma =>
            t.value.items = <<NormNum(1, 0), NormNum(25, -1), Str(<<"\"", "a">>),
                              Str(<<"b", "\"">>)>>

\* C10: the text of a tag parseTag returned parses again, to a tag of the
\* same name whose fields have the same values.
C10_TagTextRoundTrip ==
    Len(probe) = 2 =>
        /\ ~IsError(probe[2].err)
        /\ probe[2].val.name = probe[1].val.name
        /\ probe[2].val.fields = probe[1].val.fields

\* the greatest of a set of naturals, 0 for the empty set
Greatest(S) == IF S = {} THEN 0 ELSE CHOOSE m \in S : \A x \in S : x <= m

\* a key as a primitive Value: its kind and its content
KeyOf(pair) == <<pair[1].type, pair[1].value>>

\* the pairs of a dictionary literal that no later pair with the same key
\* replaces
Kept(pairs) ==
    {i \in 1..Len(pairs) : \A j \in (i + 1)..Len(pairs) : KeyOf(pairs[j]) # KeyOf(pairs[i])}

RECURSIVE Nesting(_)
\* how deep a literal nests: 0 for a token
Nesting(lit) ==
    CASE lit.k = "leaf" -> 0
      [] lit.k = "arr" -> 1 + Greatest({Nesting(lit.items[i]) : i \in 1..Len(lit.items)})
      [] lit.k = "dic" -> 1 + Greatest({Nesting(lit.pairs[i][2]) : i \in Kept(lit.pairs)})

RECURSIVE ValueNesting(_)
\* how deep the value praseValue gave nests: one level for each praseValue
\* call inside another that gave a part of it
ValueNesting(p) ==
    CASE p.value.k = "list" /\ p.type = TypeName("ARRAY") ->
             1 + Greatest({ValueNesting(p.value.items[i]) : i \in 1..Len(p.value.items)})
      [] p.value.k = "dict" ->
             1 + Greatest({ValueNesting(p.value.entries[i].val) :
                              i \in 1..Len(p.value.entries)})
      [] OTHER -> 0

RECURSIVE ParsedAs(_, _)
\* p is the literal parsed: a token's type and value; an array's elements
\* in source order, no comma among them; one entry of a dictionary for each
\* distinct key
ParsedAs(lit, p) ==
    CASE lit.k = "leaf" -> p.type = TypeName(lit.type) /\ p.value = lit.value
      [] lit.k = "arr" ->
             /\ p.type = TypeName("ARRAY")
             /\ p.value.k = "list"
             /\ Len(p.value.items) = Len(lit.items)
             /\ \A i \in 1..Len(lit.items) : ParsedAs(lit.items[i], p.value.items[i])
      [] lit.k = "dic" ->
             /\ p.type = TypeName("DICTIONARY")
             /\ p.value.k = "dict"
             /\ Len(p.value.entries) = Cardinality({KeyOf(lit.pairs[i]) : i \in 1..Len(lit.pairs)})
             /\ \A i \in 1..Len(lit.pairs) :
                    \E n \in 1..Len(p.value.entries) :
                        p.value.entries[n].key = lit.pairs[i][1].value

\* C11: praseValue parses every well-formed array or dictionary literal; the
\* value nests as deep as the literal; an array holds its elements in source
\* order, commas not stored; a dictionary has exactly one entry for each
\* distinct key written, keys being compared by kind and content (a string
\* key and a string-name key with the same characters are two keys).
C11_LiteralParsed ==
    (Len(probe) = 2 /\ versions[1] \in Literals) =>
        /\ ~IsError(probe[2].err)
        /\ ParsedAs(versions[1], probe[2].val)
        /\ ValueNesting(probe[2].val) = Nesting(versions[1])


\* the places of the properties named script among properties
ScriptPlaces(properties) ==
    {i \in 1..Len(properties) : properties[i].name = Str(K_script)}

\* C12: every node parseScene builds has hasScript true exactly when its
\* trailing properties include one named script, and then scriptId is the
\* first element of the argument list of that property's construct; a node
\* with no script property keeps hasScript false and scriptId "".  The node
\* S with script = ExtResource("1") gets hasScript and scriptId "1".
C12_ScriptDetected ==
    [][(pc = "loop" /\ NodeMade) =>
           /\ MadeNode.hasScript <=> ScriptPlaces(MadeNode.properties) # {}
           /\ MadeNode.hasScript =>
                  \E i \in ScriptPlaces(MadeNode.properties) :
                      /\ \A j \in ScriptPlaces(MadeNode.properties) : i <= j
                      /\ MadeNode.properties[i].value.k = "list"
                      /\ MadeNode.scriptId = MadeNode.properties[i].value.items[1]
           /\ ~MadeNode.hasScript => MadeNode.scriptId = Str(<<>>)
           /\ MadeNode.label = Str(<<"S">>) =>
                  MadeNode.hasScript /\ MadeNode.scriptId = Str(<<"1">>)
           /\ MadeNode.label \in {Str(<<"A">>), Str(<<"M">>)} => ~MadeNode.hasScript]_vars

\* C12, its case: the resource 1 declared, then the node S with its script
C12_Witness ==
    /\ doc.text = JoinLines(<<ExtOne, Scripted>>)
    /\ outcome.kind = "returned"
    /\ <<"1">> \in DOMAIN outcome.scene.externalResources
    /\ outcome.scene.objects[outcome.scene.root].hasScript
    /\ outcome.scene.objects[outcome.scene.root].scriptId = Str(<<"1">>)


\* the cache holds a Scene for the document's path with the file's mtime
Cached == DocPath \in DOMAIN scenes /\ scenes[DocPath].mtime = doc.mtime

\* C13: a parse_scene call parses the text again exactly when the cache
\* holds no Scene for the path with the file's current mtime, and returns
\* the cached Scene otherwise; the Scene a call returns carries the file's
\* current mtime; the cache holds one Scene for the path, which a new parse
\* replaces.
C13_CacheByMtime ==
    [][/\ (pc = "idle" /\ doc' = doc /\ Cached) =>
              /\ pc' = "idle"
              /\ outcome' = Outcome("returned", TRUE, NoError, scenes[DocPath])
              /\ scenes' = scenes
              /\ lexer' = lexer
       /\ (pc = "idle" /\ doc' = doc /\ ~Cached) =>
              /\ pc' = "loop"
              /\ lexer'.input = doc.text
              /\ lexer'.pos = 0
              /\ DOMAIN scenes' = {DocPath}
              /\ scenes'[DocPath] = NewScene(DocPath, doc.mtime)
       /\ (outcome'.kind = "returned" /\ outcome' # outcome) =>
              /\ outcome'.scene.mtime = doc'.mtime
              /\ outcome'.scene = scenes'[DocPath]
       /\ DOMAIN scenes' \subseteq {DocPath}]_vars

\* C13, its case: the file was saved after a parse, parsed again, and the
\* next call returned the Scene of the second parse from the cache
C13_Witness ==
    /\ doc.mtime = 1
    /\ pc = "idle"
    /\ outcome.kind = "returned"
    /\ outcome.hit
    /\ outcome.scene.mtime = 1
    /\ outcome.scene.root # 0


\* what is left of the input for the lexer: the characters not yet lexed,
\* the pending tokens but the EOF token, and the EOF token not yet made
Remaining(lx) ==
    (lx.len - lx.pos)
    + Cardinality({i \in 1..Len(lx.pending) : lx.pending[i].type # "EOF"})
    + (IF lx.eof THEN 0 ELSE 1)

\* the tags parseTag returns from the lexer of a pass, with the lexer after
TagsAhead ==
    IF pc # "loop" THEN {} ELSE {x \in {ParseTag(lexer)} : ~IsError(x.err)}

InstanceId(tag) == StringOf(First(GetField(tag, K_instance)))

Consumed(lx) == IF Len(lx.pending) > 0 THEN lx.pending[1].pos ELSE lx.pos

\* the text from index from up to what the pass consumed
ConsumedFrom(from) == Slice(doc.text, from, Consumed(lexer'))

\* how many times the character c occurs in a text
Count(text, c) == Cardinality({i \in 1..Len(text) : text[i] = c})

\* the token a pass of the loop finds, when peek gives one
TokenAhead ==
    IF pc # "loop" THEN {} ELSE {x.val : x \in {y \in {LexPeek(lexer)} : ~IsError(y.err)}}

\* the three names of the tags that change the scene
SceneTags == {Str(K_ext_resource), Str(K_sub_resource), Str(K_node)}

\* C16: a pass of the top-level loop changes the scene only when it parses
\* a tag that starts with "[" in column 1 and is named ext_resource,
\* sub_resource or node.  A tag in column 1 with any other name is consumed
\* up to its "]" and the scene stays as it is; a token that is not a "[" in
\* column 1 (a "[" in another column too) is consumed alone, no tag is
\* parsed, and the scene stays as it is.
C16_OnlyTagsChangeScene ==
    [][\A t \in TokenAhead :
           IF t.type = "BRACKET_OPEN" /\ t.column = 1
           THEN \A x \in TagsAhead :
                    x.val.name \notin SceneTags =>
                        /\ scenes'[DocPath] = scenes[DocPath]
                        /\ pc' = "loop"
                        /\ ConsumedFrom(t.pos)[Len(ConsumedFrom(t.pos))] = "]"
                        /\ Count(ConsumedFrom(t.pos), "[") = Count(ConsumedFrom(t.pos), "]")
           ELSE /\ scenes'[DocPath] = scenes[DocPath]
                /\ t.type # "EOF" =>
                       /\ pc' = "loop"
                       /\ Consumed(lexer') >= t.pos + Len(t.text)
                       /\ \A i \in 1..Len(ConsumedFrom(t.pos + Len(t.text))) :
                              ConsumedFrom(t.pos + Len(t.text))[i] \in WhiteSpace]_vars

\* C16, its case: a tag of another name, then tokens outside tags, one of
\* them a "[" in column 3: the parse returned an empty scene
C16_Witness ==
    /\ doc.text = JoinLines(<<OtherTag, Indented>>)
    /\ outcome.kind = "returned"
    /\ ~outcome.hit
    /\ outcome.scene = NewScene(DocPath, doc.mtime)


\* the alternatives of praseValue that succeed from a lexer, tried one by
\* one on that lexer: 1 construct, 2 primitive, 3 array, 4 dictionary
Succeeding(lx) == {i \in 1..ValueAlternatives : ~IsError(ValueAlternative(lx, i).err)}

\* the next token of a lexer, or the error peek throws
NextOf(lx) == [err |-> LexPeek(lx).err, val |-> LexPeek(lx).val]

\* C17: praseValue returns what the first alternative that succeeds from
\* the starting token returns, in the order construct, primitive, array,
\* dictionary, and leaves the lexer after that alternative's tokens; an
\* alternative that failed has consumed nothing (the identifier of "a 1" is
\* there for the primitive alternative after the construct alternative
\* failed); when all four fail praseValue fails and the lexer is at the
\* starting token again.
C17_FirstAlternative ==
    Len(probe) = 2 =>
        /\ probe[2].lx.transaction = <<>>
        /\ IF Succeeding(probe[1]) = {}
           THEN /\ IsError(probe[2].err)
                /\ NextOf(probe[2].lx) = NextOf(probe[1])
           ELSE \E i \in Succeeding(probe[1]) :
                    /\ \A j \in Succeeding(probe[1]) : i <= j
                    /\ ~IsError(probe[2].err)
                    /\ probe[2].val = ValueAlternative(probe[1], i).val
                    /\ NextOf(probe[2].lx) = NextOf(ValueAlternative(probe[1], i).lx)
        /\ doc.text = <<"a", " ", "1">> =>
               /\ probe[2].val.type = TypeName("IDENTIFIER")
               /\ probe[2].val.value = Str(<<"a">>)
               /\ NextOf(probe[2].lx).val.type = "NUMBER"
        /\ doc.text = <<"V", "(", "1", ")", " ", "1">> =>
               /\ probe[2].val.type = Str(<<"V">>)
               /\ probe[2].val.value = List(<<NormNum(1, 0)>>)

\* C17, its case: on "a 1" the construct alternative consumed the
\* identifier and failed at the number, and the primitive alternative
\* returned the identifier
C17_Witness ==
    /\ Len(probe) = 2
    /\ doc.text = <<"a", " ", "1">>
    /\ Succeeding(probe[1]) = {2}
    /\ probe[2].val.text = <<"a">>
    /\ NextOf(probe[2].lx).val.text = <<"1">>


\* what a pass that goes on stored for the sub_resource or node tag it
\* parsed: the tag, and the record or node with its properties and body
StoredNow ==
    IF pc # "loop" \/ pc' # "loop" THEN {}
    ELSE {[tag |-> x.val,
           rec |-> IF x.val.name = Str(K_node) THEN MadeNode
                   ELSE scenes'[DocPath].subResources[StringOf(GetField(x.val, K_id))]] :
             x \in {y \in TagsAhead : /\ y.val.name \in {Str(K_node), Str(K_sub_resource)}
                                      /\ LexPeek(lexer).val.column = 1}}

\* the texts of a list of properties
TextsOf(properties) == [i \in 1..Len(properties) |-> properties[i].text]

\* the properties of a stored record are the run of productions after the
\* tag, in source order, up to the first token that is no identifier, and
\* its body is the tag's text and the properties' texts joined by line
\* feeds
RunStored(s) ==
    /\ \A i \in 1..Len(s.rec.properties) :
           /\ s.rec.properties[i].line > s.tag.line
           /\ i > 1 => s.rec.properties[i].line >= s.rec.properties[i - 1].line
           /\ s.rec.properties[i].text
                  = StringOf(s.rec.properties[i].name) \o <<"=">>
                    \o SubSeq(s.rec.properties[i].text,
                              Len(StringOf(s.rec.properties[i].name)) + 2,
                              Len(s.rec.properties[i].text))
    /\ IsError(NextOf(lexer').err) \/ NextOf(lexer').val.type # "IDENTIFIER"
    /\ s.rec.body = JoinTexts(<<s.tag.text>> \o TextsOf(s.rec.properties), <<"\n">>)
    /\ GetField(s.tag, K_id) = Str(<<"2">>) =>
           /\ TextsOf(s.rec.properties) = <<<<"k", "=", "1">>, <<"m", "=", "[", "1", ",", " ", "2", "]">>>>
           /\ s.rec.body = <<"[", "s", "u", "b", "_", "r", "e", "s", "o", "u", "r", "c", "e", " ", "t", "y", "p", "e", "=", "\"", "T", "\"", " ", "i", "d", "=", "\"", "2", "\"", "]", "\n", "k", "=", "1", "\n", "m", "=", "[", "1", ",", " ", "2", "]">>

\* a run of properties that fails stores nothing: the pass throws and the
\* scene is as the pass found it
FailedRunStoresNothing ==
    \A x \in TagsAhead :
        (/\ x.val.name \in {Str(K_node), Str(K_sub_resource)}
         /\ LexPeek(lexer).val.column = 1
         /\ IsError(PropertyLoop(x.lx, <<>>).err)) =>
            /\ outcome'.kind = "threw"
            /\ scenes'[DocPath] = scenes[DocPath]

\* C18 as amended: for a sub_resource or node tag the properties list is
\* the maximal run of identifier = value productions that follows the tag,
\* in source order, ended by the first token that is no identifier; the
\* body is the tag's text and then each property's text, joined by line
\* feeds, so body has as many line feeds as properties has entries and the
\* texts joined hold themselves: one line more than properties has entries
\* when neither the tag's text nor a property's text holds a line feed; the
\* record or node is stored only after the whole run parsed.
C18_PropertiesAndBody ==
    [][/\ \A s \in StoredNow :
              /\ RunStored(s)
              /\ LineFeeds(s.rec.body)
                     = Len(s.rec.properties) + LineFeeds(s.tag.text)
                       + LineFeeds(Concat(TextsOf(s.rec.properties)))
       /\ FailedRunStoresNothing]_vars

\* C18, its case: the node M stored with its one property, a string
\* written over two lines, its body being of three lines
C18_Witness ==
    /\ doc.text = Multi
    /\ outcome.kind = "returned"
    /\ Len(outcome.scene.objects[1].properties) = 1
    /\ outcome.scene.objects[1].properties[1].value = Str(<<"x", "\n", "y">>)
    /\ LineFeeds(outcome.scene.objects[1].body) = 2

\* C18 as stated: the same, with a body of one line more than properties
\* has entries, whatever the texts joined.
C18_BodyLines ==
    [][/\ \A s \in StoredNow :
              /\ RunStored(s)
              /\ LineFeeds(s.rec.body) = Len(s.rec.properties)
       /\ FailedRunStoresNothing]_vars


\* C19: a tag with no closing "]" before the end of the input makes
\* parseTag fail with an unexpected-token error, so that the pass throws
\* that error and puts nothing in externalResources, subResources or nodes.
C19_UnclosedTag ==
    [][\A t \in TokenAhead :
           (/\ t.type = "BRACKET_OPEN"
            /\ t.column = 1
            /\ Count(Slice(doc.text, t.pos, Len(doc.text)), "]") = 0) =>
               /\ IsError(ParseTag(lexer).err)
               /\ outcome'.kind = "threw"
               /\ outcome'.err.kind = "ParsingError"
               /\ outcome'.err.msg = "unexpected token"
               /\ scenes'[DocPath] = scenes[DocPath]]_vars


\* the places of the EOF tokens among the tokens lexed
EofPlaces == {i \in 1..Len(probe) : probe[i].type = "EOF"}

\* C20: a _tokenize call that returns without throwing leaves a token
\* pending, the EOF token when the input is exhausted, also when what was
\* left of the input was white space or a comment: token() never finds the
\* pending queue empty after _tokenize; the EOF token is made at most once
\* and no token comes after it.
C20_TokenOrEof ==
    pc \in {"lex", "idle"} =>
        /\ outcome.kind # "returned"
        /\ (Len(lexer.pending) = 0 /\ ~IsError(Tokenize(lexer).err)) =>
               Len(Tokenize(lexer).lx.pending) > 0
        /\ Cardinality(EofPlaces) <= 1
        /\ EofPlaces \subseteq {Len(probe)}
        /\ \A i \in 1..Len(lexer.pending) :
               lexer.pending[i].type = "EOF" => i = Len(lexer.pending)


\* every node with a parent field comes after a node whose absolute path
\* is the parent it names (objects holds the nodes in declaration order)
ParentsFirst(scene) ==
    \A i \in 1..Len(scene.objects) :
        scene.objects[i].parent # Undefined =>
            \E j \in 1..(i - 1) : scene.objects[j].path = scene.objects[i].parent

\* C21: after parseScene returns for a text in which every node tag with a
\* parent field comes after the tag of the node it names as parent, every
\* entry of scene.nodes is reachable from scene.root through children
\* lists, whatever the number of node tags without a parent field.
C21_NodesReachable ==
    (pc = "idle" /\ outcome.kind = "returned" /\ ParentsFirst(outcome.scene)) =>
        \A key \in DOMAIN outcome.scene.nodes :
            outcome.scene.nodes[key] \in Reachable(outcome.scene)

=============================================================================
